---- MODULE Spec2Model ----
(***************************************************************************)
(* rss-agent-discovery: find-rss-feeds.ts as a state machine.              *)
(*                                                                         *)
(* One run of the CLI: main() parses the arguments, short-circuits on      *)
(* --version / --help / no URL, otherwise starts one findRSSFeeds          *)
(* pipeline per URL (Promise.all), each pipeline scanning the root page,   *)
(* then the blog sections (Promise.allSettled), every fetch sharing the    *)
(* AbortSignal.timeout of its URL.  Every await is one step.               *)
(*                                                                         *)
(* Strings are atoms; what the code asks of a string (parseInt, includes,  *)
(* split, new URL) is given by the tables below for the strings used.      *)
(***************************************************************************)
EXTENDS Integers, Sequences, FiniteSets, TLC

VARIABLES
  argv,      \* process.argv.slice(2)
  pc,        \* position of main(): "start", "parsed", "scanning", "rejected", "exited"
  cliOptions,\* the process-wide option record (find-rss-feeds.ts:46)
  urls,      \* the URLs parseArgs returned
  pipes,     \* pipes[i]: the findRSSFeeds call of urls[i]
  stdout,    \* sequence of console.log writes
  stderr,    \* set of console.error writes (order and repetition abstracted)
  exitCode,  \* <<code>> once process.exit(code) was called, <<>> while running
  input,     \* the arguments of an exported function called on its own
  output     \* what that call returned

vars == <<argv, pc, cliOptions, urls, pipes, stdout, stderr, exitCode, input, output>>

\* ------------------------------------------------------------------ bounds
\* Number of entries of commonPaths (find-rss-feeds.ts:281) that a scan probes.
MaxCommonPaths == 2
\* Largest --max-blogs value among the runs explored.
MaxSections == 2
\* Largest maxBlogs among the direct calls of discoverBlogSubdirectories.
MaxBlogsArg == 3
\* Longest argument list among the runs that only parse their arguments.
MaxArgs == 3

NULL == "<null>"

\* ------------------------------------------------------------------ helpers
Contains(s, x) == \E i \in 1..Len(s) : s[i] = x

Min(a, b) == IF a < b THEN a ELSE b

\* Array.prototype.slice(0, n)
Slice(s, n) == SubSeq(s, 1, Min(n, Len(s)))

Last(s) == s[Len(s)]

\* ------------------------------------------------------------------ URLs
\* A URL is [origin, path]; a path is the sequence of its segments, a final
\* "" standing for a trailing slash: "/" is <<"">>, "/blog" is <<"blog">>,
\* "/feeds/rss.xml" is <<"feeds", "rss.xml">>.
OriginA == "https://a.example"
OriginB == "https://b.example"
OriginX == "https://x.example"

MkUrl(o, p) == [origin |-> o, path |-> p]

\* An href is what new URL(href, base) is given: an absolute path ("abs"), a
\* relative path ("rel"), a full URL with its own origin ("full") or a string
\* the URL parser rejects ("bad").
Abs(p) == [kind |-> "abs", origin |-> "", path |-> p]
Rel(p) == [kind |-> "rel", origin |-> "", path |-> p]
Full(o, p) == [kind |-> "full", origin |-> o, path |-> p]
BadHref == [kind |-> "bad", origin |-> "", path |-> <<>>]

\* new URL(href, base) throws
UrlThrows(href) == href.kind = "bad"

\* new URL(href, base) for an href that parses
ResolveUrl(href, base) ==
  CASE href.kind = "full" -> MkUrl(href.origin, href.path)
    [] href.kind = "abs"  -> MkUrl(base.origin, href.path)
    [] OTHER -> MkUrl(base.origin, SubSeq(base.path, 1, Len(base.path) - 1) \o href.path)

\* The URL the parser makes of a command-line URL argument.
UrlTokens == <<"https://a.example", "https://b.example">>

UrlOfToken(t) ==
  CASE t = "https://a.example" -> MkUrl(OriginA, <<"">>)
    [] t = "https://b.example" -> MkUrl(OriginB, <<"">>)
    [] OTHER -> MkUrl(OriginX, <<"">>)

\* ------------------------------------------------------------------ parseArgs
\* A JavaScript number: NaN, or an integer.  An integer above 2^32 - 1 is kept
\* as the flag wide and the largest 32-bit integer.
NaN == [nan |-> TRUE, val |-> 0, wide |-> FALSE]
Num(n) == [nan |-> FALSE, val |-> n, wide |-> FALSE]
Wide == [nan |-> FALSE, val |-> 2147483647, wide |-> TRUE]

defaultOptions ==
  [help |-> FALSE, version |-> FALSE, verbose |-> FALSE, skipBlogs |-> FALSE,
   maxBlogs |-> 5, hasCustom |-> FALSE, customBlogPaths |-> <<>>, timeout |-> Num(10000)]


\* parseInt(tok, 10): the number a token starts with, or NaN.
parseInt(tok) ==
  CASE tok = "1" -> Num(1)
    [] tok = "2" -> Num(2)
    [] tok = "3" -> Num(3)
    [] tok = "2x" -> Num(2)
    [] tok = "0" -> Num(0)
    [] tok = "-3" -> Num(-3)
    [] tok = "1000" -> Num(1000)
    [] tok = "4294967296" -> Wide
    [] OTHER -> NaN

\* The characters of a --blog-paths value that split and trim look at: each
\* piece is a separator, a blank, or a run of other characters.
Pieces(tok) ==
  CASE tok = "/a,/b|/c" -> <<"/a", ",", "/b", "|", "/c">>
    [] tok = "/blog" -> <<"/blog">>
    [] tok = "/blog, /news" -> <<"/blog", ",", " ", "/news">>
    [] tok = "/a,,/b" -> <<"/a", ",", ",", "/b">>
    [] tok = "," -> <<",">>
    [] tok = " " -> <<" ">>
    [] tok = "" -> <<>>
    [] OTHER -> <<tok>>

IsSeparator(c) == c \in {",", "|"}

\* String.prototype.trim applied to a run of pieces: the pieces left when the
\* blanks at both ends are removed.
RECURSIVE TrimLeft(_)
TrimLeft(ps) ==
  IF ps # <<>> /\ ps[1] = " " THEN TrimLeft(Tail(ps)) ELSE ps

RECURSIVE TrimRight(_)
TrimRight(ps) ==
  IF ps # <<>> /\ Last(ps) = " " THEN TrimRight(SubSeq(ps, 1, Len(ps) - 1)) ELSE ps

Trim(ps) == TrimRight(TrimLeft(ps))

\* split(/[,|]/): the runs between separators, empty runs included.
RECURSIVE SplitFrom(_, _, _)
SplitFrom(ps, cur, acc) ==
  IF ps = <<>> THEN Append(acc, cur)
  ELSE IF IsSeparator(ps[1]) THEN SplitFrom(Tail(ps), <<>>, Append(acc, cur))
  ELSE SplitFrom(Tail(ps), Append(cur, ps[1]), acc)

Split(ps) == SplitFrom(ps, <<>>, <<>>)

\* A trimmed run of pieces as the string it is.  Runs of the values above are
\* single pieces.
Join(ps) == IF Len(ps) = 1 THEN ps[1] ELSE "?"

\* args[++i].split(/[,|]/).map(p => p.trim()).filter(Boolean)
RECURSIVE TrimFilter(_)
TrimFilter(runs) ==
  IF runs = <<>> THEN <<>>
  ELSE IF Trim(runs[1]) = <<>> THEN TrimFilter(Tail(runs))
  ELSE <<Join(Trim(runs[1]))>> \o TrimFilter(Tail(runs))

splitBlogPaths(tok) == TrimFilter(Split(Pieces(tok)))

IsUrlArg(tok) == Contains(UrlTokens, tok)

\* parseArgs from args[i] on; acc is [err, opts, urls], err the message thrown.
RECURSIVE parseFrom(_, _, _)
parseFrom(args, i, acc) ==
  IF i > Len(args) THEN acc
  ELSE LET arg == args[i]
           hasNext == i + 1 <= Len(args)
           n == IF hasNext THEN parseInt(args[i + 1]) ELSE NaN
       IN
    CASE arg \in {"--help", "-h"} ->
           parseFrom(args, i + 1, [acc EXCEPT !.opts.help = TRUE])
      [] arg \in {"--version", "-V"} ->
           parseFrom(args, i + 1, [acc EXCEPT !.opts.version = TRUE])
      [] arg \in {"--verbose", "-v"} ->
           parseFrom(args, i + 1, [acc EXCEPT !.opts.verbose = TRUE])
      [] arg \in {"--no-blogs", "--skip-blogs"} ->
           parseFrom(args, i + 1, [acc EXCEPT !.opts.skipBlogs = TRUE])
      [] arg = "--max-blogs" ->
           IF ~hasNext THEN [acc EXCEPT !.err = "--max-blogs requires a value"]
           ELSE IF n.nan \/ n.val <= 0
             THEN [acc EXCEPT !.err = "--max-blogs requires a positive number"]
           ELSE parseFrom(args, i + 2, [acc EXCEPT !.opts.maxBlogs = n.val])
      [] arg = "--blog-paths" ->
           IF ~hasNext \/ Trim(Pieces(args[i + 1])) = <<>>
             THEN [acc EXCEPT !.err = "--blog-paths requires a value"]
           ELSE parseFrom(args, i + 2,
                  [acc EXCEPT !.opts.hasCustom = TRUE,
                              !.opts.customBlogPaths = splitBlogPaths(args[i + 1])])
      [] arg = "--timeout" ->
           IF ~hasNext THEN [acc EXCEPT !.err = "--timeout requires a value"]
           ELSE IF n.nan \/ n.val <= 0
             THEN [acc EXCEPT !.err = "--timeout requires a positive number"]
           ELSE parseFrom(args, i + 2, [acc EXCEPT !.opts.timeout = n])
      [] OTHER ->
           IF IsUrlArg(arg)
             THEN parseFrom(args, i + 1, [acc EXCEPT !.urls = Append(@, arg)])
           ELSE parseFrom(args, i + 1, acc)

parseArgs(args) ==
  parseFrom(args, 1, [err |-> NULL, opts |-> defaultOptions, urls |-> <<>>])

\* ------------------------------------------------------------------ substrings
\* String.prototype.includes over the strings of the model: the keywords of
\* BLOG_KEYWORDS that occur in a string.
BLOG_KEYWORDS ==
  {"blog", "news", "articles", "posts", "updates", "journal", "insights",
   "stories", "press", "medium", "substack", "the-edge", "engineering-blog",
   "dev", "engineering", "developers", "community"}

KeywordsIn(str) ==
  CASE str \in {"blog", "our blog"} -> {"blog"}
    [] str = "news" -> {"news"}
    [] str = "engineering-blog" -> {"blog", "engineering-blog", "engineering"}
    [] str = "developers" -> {"dev", "developers"}
    [] str = "devices" -> {"dev"}
    [] str \in BLOG_KEYWORDS -> {str}
    [] OTHER -> {}

\* type.includes(s) for the MIME types of link tags and content-type headers.
PartsOf(mime) ==
  CASE mime = "application/atom+xml" -> {"atom+xml", "atom", "xml"}
    [] mime = "application/rss+xml" -> {"rss+xml", "rss", "xml"}
    [] mime = "text/xml" -> {"xml"}
    [] mime = "text/html" -> {"text/html"}
    [] mime = "application/xhtml+xml; text/html" -> {"xml", "text/html"}
    [] OTHER -> {}

Includes(mime, s) == s \in PartsOf(mime)

\* path.includes('atom') for the entries of commonPaths
PathHasAtom(p) == \E i \in 1..Len(p) : p[i] \in {"atom", "atom.xml"}

\* ------------------------------------------------------------------ pages
\* The HTML of a page, as what cheerio reads from it: the link[rel=alternate]
\* elements, the a[href] elements, whether the body is the empty string, and
\* whether an anchor's subtree is nested deeper than text() can recurse.
NoHref == [kind |-> "none", origin |-> "", path |-> <<>>]

Link(type, href, title) == [type |-> type, href |-> href, title |-> title]
Anchor(href, text) == [href |-> href, text |-> text]

PagePlain ==
  [name |-> "plain", links |-> <<>>, anchors |-> <<>>, deep |-> FALSE, empty |-> FALSE]

PageHome ==
  [name |-> "home",
   links |-> <<Link("application/atom+xml", Abs(<<"feed.xml">>), "Blog"),
               Link("application/rss+xml", Rel(<<"feed.xml">>), "Again")>>,
   anchors |-> <<Anchor(Abs(<<"blog", "post">>), "our blog")>>,
   deep |-> FALSE, empty |-> FALSE]

PageSection ==
  [name |-> "section",
   links |-> <<Link("application/rss+xml", Rel(<<"feed.xml">>), "Section feed")>>,
   anchors |-> <<>>, deep |-> FALSE, empty |-> FALSE]

PageDeep ==
  [name |-> "deep", links |-> <<>>,
   anchors |-> <<Anchor(Abs(<<"about">>), "about")>>,
   deep |-> TRUE, empty |-> FALSE]

\* the empty string as HTML
PageEmpty ==
  [name |-> "empty", links |-> <<>>, anchors |-> <<>>, deep |-> FALSE, empty |-> TRUE]

\* a page of anchors: one to another origin, keyword matches by path and by
\* text, a second link under a root already taken, a path of four segments
PageLinks ==
  [name |-> "links", links |-> <<>>,
   anchors |-> <<Anchor(Full(OriginX, <<"blog">>), "blog"),
                 Anchor(Abs(<<"news", "2024">>), "latest"),
                 Anchor(Abs(<<"blog">>), "read"),
                 Anchor(Abs(<<"news">>), "news"),
                 Anchor(Abs(<<"a", "b", "c", "d">>), "blog")>>,
   deep |-> FALSE, empty |-> FALSE]

\* a page that links one path twice, the first time under a text without
\* keyword, and links the root path under a text with a keyword
PageDup ==
  [name |-> "dup", links |-> <<>>,
   anchors |-> <<Anchor(Abs(<<"about">>), "about"),
                 Anchor(Abs(<<"about">>), "our blog"),
                 Anchor(Abs(<<"">>), "blog")>>,
   deep |-> FALSE, empty |-> FALSE]

Pages == {PagePlain, PageHome, PageSection, PageDeep, PageEmpty, PageLinks, PageDup}

PageOf(name) == CHOOSE p \in Pages : p.name = name

\* ------------------------------------------------------------------ candidates
Feed(u, title, type) == [url |-> u, title |-> title, type |-> type]

HasUrl(feeds, u) == \E i \in 1..Len(feeds) : feeds[i].url = u

\* Map.set under the has() guard: first occurrence wins.
AddFirstWins(feeds, f) == IF HasUrl(feeds, f.url) THEN feeds ELSE Append(feeds, f)

\* the merge with Map.set outside the has() guard: an entry keeps its place,
\* a later feed with its url overwrites its value
RECURSIVE MergeFeeds_overwrite(_, _)
MergeFeeds_overwrite(into, feeds) ==
  IF feeds = <<>> THEN into
  ELSE LET f == feeds[1]
           set == IF HasUrl(into, f.url)
                    THEN [k \in 1..Len(into) |-> IF into[k].url = f.url THEN f ELSE into[k]]
                  ELSE Append(into, f)
       IN MergeFeeds_overwrite(set, Tail(feeds))

RECURSIVE MergeFeeds(_, _)
MergeFeeds(into, feeds) ==
  IF feeds = <<>> THEN into
  ELSE MergeFeeds(AddFirstWins(into, feeds[1]), Tail(feeds))

\* the link tags a scan turns into candidates (find-rss-feeds.ts:260-279)
IsFeedLink(l) ==
  /\ l.type # ""
  /\ Includes(l.type, "rss+xml") \/ Includes(l.type, "atom+xml")
  /\ l.href.kind # "none"

RECURSIVE declaredFeeds(_, _, _)
declaredFeeds(links, url, acc) ==
  IF links = <<>> THEN acc
  ELSE LET l == links[1] IN
    IF IsFeedLink(l) /\ ~UrlThrows(l.href)
      THEN declaredFeeds(Tail(links), url,
             AddFirstWins(acc,
               Feed(ResolveUrl(l.href, url),
                    IF l.title = "" THEN "RSS Feed" ELSE l.title,
                    IF Includes(l.type, "atom") THEN "atom" ELSE "rss")))
    ELSE declaredFeeds(Tail(links), url, acc)

\* a link tag whose href makes new URL throw
HasInvalidHref(page) ==
  \E i \in 1..Len(page.links) : IsFeedLink(page.links[i]) /\ UrlThrows(page.links[i].href)

allCommonPaths ==
  << <<"rss.xml">>, <<"feed.xml">>, <<"rss">>, <<"atom">>, <<"atom.xml">>,
     <<"index.xml">>, <<"feeds", "rss.xml">>, <<"feed">>, <<"rss", "feed.xml">> >>

commonPaths == Slice(allCommonPaths, MaxCommonPaths)

\* the candidate of a conventional path
conventionalFeed(path, url) ==
  LET u == ResolveUrl(Rel(path), url) IN
    Feed(u, IF Last(u.path) = "" THEN "RSS Feed" ELSE Last(u.path),
         IF PathHasAtom(path) THEN "atom" ELSE "rss")

\* the loop over commonPaths with Map.set outside the has() guard
conventionalFeeds_overwrite(paths, url, acc) ==
  MergeFeeds_overwrite(acc, [k \in 1..Len(paths) |-> conventionalFeed(paths[k], url)])

RECURSIVE conventionalFeeds(_, _, _)
conventionalFeeds(paths, url, acc) ==
  IF paths = <<>> THEN acc
  ELSE conventionalFeeds(Tail(paths), url,
         AddFirstWins(acc, conventionalFeed(paths[1], url)))

\* discoveredFeeds of scanURLForFeeds, in insertion order
candidates(page, url) ==
  conventionalFeeds(commonPaths, url, declaredFeeds(page.links, url, <<>>))

\* ------------------------------------------------------------------ validation
\* isValidFeed without the test of the content-type against text/html
isValidFeed_htmlAllowed(contentType, body) ==
  LET hasXmlDeclaration == "<?xml" \in body
      hasXmlContentType == \/ Includes(contentType, "xml")
                           \/ Includes(contentType, "rss")
                           \/ Includes(contentType, "atom")
      hasRssOrFeed == "<rss" \in body \/ "<feed" \in body
  IN hasRssOrFeed /\ (hasXmlDeclaration \/ hasXmlContentType)

\* A candidate's body is the set of markers it contains.
isValidFeed(contentType, body) ==
  LET hasXmlDeclaration == "<?xml" \in body
      hasXmlContentType == \/ Includes(contentType, "xml")
                           \/ Includes(contentType, "rss")
                           \/ Includes(contentType, "atom")
      hasRssOrFeed == "<rss" \in body \/ "<feed" \in body
      isHtml == Includes(contentType, "text/html")
  IN hasRssOrFeed /\ (hasXmlDeclaration \/ hasXmlContentType) /\ ~isHtml

\* ------------------------------------------------------------------ blog sections
\* A path string is modelled as the href it is to new URL: "/blog" is
\* Abs(<<"blog">>), "blog" is Rel(<<"blog">>).
hrefOfString(str) ==
  CASE str = "/a" -> Abs(<<"a">>)
    [] str = "/b" -> Abs(<<"b">>)
    [] str = "/c" -> Abs(<<"c">>)
    [] str = "/blog" -> Abs(<<"blog">>)
    [] str = "/news" -> Abs(<<"news">>)
    [] str = "https://x.example/blog" -> Full(OriginX, <<"blog">>)
    [] OTHER -> Rel(<<str>>)

COMMON_BLOG_PATHS ==
  << Abs(<<"blog">>), Abs(<<"news">>), Abs(<<"articles">>), Abs(<<"posts">>),
     Abs(<<"updates">>), Abs(<<"journal">>), Abs(<<"insights">>), Abs(<<"stories">>),
     Abs(<<"press">>), Abs(<<"medium">>), Abs(<<"substack">>), Abs(<<"the-edge">>),
     Abs(<<"engineering-blog">>), Abs(<<"engineering">>), Abs(<<"developers">>),
     Abs(<<"dev">>), Abs(<<"community">>) >>

\* split('/').filter(Boolean) of a pathname
RECURSIVE NonEmpty(_)
NonEmpty(p) ==
  IF p = <<>> THEN <<>>
  ELSE IF p[1] = "" THEN NonEmpty(Tail(p)) ELSE <<p[1]>> \o NonEmpty(Tail(p))

\* linkTextAndUrls: the same-origin anchors, in document order
RECURSIVE sameOriginLinks(_, _)
sameOriginLinks(anchors, base) ==
  IF anchors = <<>> THEN <<>>
  ELSE LET a == anchors[1] IN
    IF a.href.kind # "none" /\ ~UrlThrows(a.href)
       /\ ResolveUrl(a.href, base).origin = base.origin
      THEN <<[text |-> a.text, path |-> ResolveUrl(a.href, base).path]>>
             \o sameOriginLinks(Tail(anchors), base)
    ELSE sameOriginLinks(Tail(anchors), base)

MatchesKeyword(link) ==
  \/ KeywordsIn(link.text) # {}
  \/ \E i \in 1..Len(link.path) : KeywordsIn(link.path[i]) # {}

\* the loop over linkTextAndUrls: st is [seen, roots]
RECURSIVE extractLoop(_, _)
extractLoop(links, st) ==
  IF links = <<>> THEN st.roots
  ELSE LET link == links[1]
           parts == NonEmpty(link.path)
           root == IF parts = <<>> THEN <<>> ELSE <<parts[1]>>
       IN
    IF link.path \in st.seen THEN extractLoop(Tail(links), st)
    ELSE IF /\ MatchesKeyword(link)
            /\ link.path # <<"">>
            /\ Len(parts) >= 1 /\ Len(parts) <= 3
            /\ root \notin st.seen
      THEN extractLoop(Tail(links),
             [seen |-> st.seen \cup {root, link.path},
              roots |-> Append(st.roots, Abs(root))])
    ELSE extractLoop(Tail(links), st)

\* the loop without the test of the number of segments
RECURSIVE extractLoop_anyDepth(_, _)
extractLoop_anyDepth(links, st) ==
  IF links = <<>> THEN st.roots
  ELSE LET link == links[1]
           parts == NonEmpty(link.path)
           root == IF parts = <<>> THEN <<>> ELSE <<parts[1]>>
       IN
    IF link.path \in st.seen THEN extractLoop_anyDepth(Tail(links), st)
    ELSE IF /\ MatchesKeyword(link)
            /\ link.path # <<"">>
            /\ root \notin st.seen
      THEN extractLoop_anyDepth(Tail(links),
             [seen |-> st.seen \cup {root, link.path},
              roots |-> Append(st.roots, Abs(root))])
    ELSE extractLoop_anyDepth(Tail(links), st)

extractBlogLinksFromHTML_anyDepth(page, base) ==
  extractLoop_anyDepth(sameOriginLinks(page.anchors, base), [seen |-> {}, roots |-> <<>>])

\* $(el).text() recurses over the element's subtree: on a subtree nested
\* deeper than the stack allows it throws RangeError, which nothing inside
\* extractBlogLinksFromHTML catches.
extractThrows(page) == page.deep

extractBlogLinksFromHTML(page, base) ==
  extractLoop(sameOriginLinks(page.anchors, base), [seen |-> {}, roots |-> <<>>])

RECURSIVE appendMissing(_, _)
appendMissing(blogPaths, paths) ==
  IF paths = <<>> THEN blogPaths
  ELSE appendMissing(IF Contains(blogPaths, paths[1]) THEN blogPaths
                     ELSE Append(blogPaths, paths[1]),
                     Tail(paths))

RECURSIVE MapHref(_)
MapHref(strs) ==
  IF strs = <<>> THEN <<>> ELSE <<hrefOfString(strs[1])>> \o MapHref(Tail(strs))

\* blogPaths with the canonical list appended after the override list
blogPathsOf_canonicalAppended(base, hasHtml, page, opts) ==
  LET found == IF hasHtml THEN extractBlogLinksFromHTML(page, base) ELSE <<>>
  IN IF opts.hasCustom
       THEN appendMissing(appendMissing(found, MapHref(opts.customBlogPaths)),
                          COMMON_BLOG_PATHS)
     ELSE IF Len(found) = 0 THEN appendMissing(found, COMMON_BLOG_PATHS)
     ELSE found

\* blogPaths with the list appended whatever the page's links gave
blogPathsOf_alwaysFallback(base, hasHtml, page, opts) ==
  LET found == IF hasHtml THEN extractBlogLinksFromHTML(page, base) ELSE <<>>
      pathsToUse == IF opts.hasCustom THEN MapHref(opts.customBlogPaths)
                    ELSE COMMON_BLOG_PATHS
  IN appendMissing(found, pathsToUse)

\* blogPaths of discoverBlogSubdirectories before the slice; hasHtml is the
\* truthiness of the html argument (null and "" are falsy)
blogPathsOf(base, hasHtml, page, opts) ==
  LET found == IF hasHtml THEN extractBlogLinksFromHTML(page, base) ELSE <<>>
      pathsToUse == IF opts.hasCustom THEN MapHref(opts.customBlogPaths)
                    ELSE COMMON_BLOG_PATHS
  IN IF Len(found) = 0 \/ opts.hasCustom
       THEN appendMissing(found, pathsToUse)
     ELSE found

\* discoverBlogSubdirectories with the override list replacing what the
\* page's links gave
discoverBlogSubdirectories_overrideReplaces(base, hasHtml, page, opts) ==
  IF opts.hasCustom
    THEN Slice(appendMissing(<<>>, MapHref(opts.customBlogPaths)), opts.maxBlogs)
  ELSE Slice(blogPathsOf(base, hasHtml, page, opts), opts.maxBlogs)

\* discoverBlogSubdirectories without the slice
discoverBlogSubdirectories_untruncated(base, hasHtml, page, opts) ==
  blogPathsOf(base, hasHtml, page, opts)

discoverBlogSubdirectories(base, hasHtml, page, opts) ==
  Slice(blogPathsOf(base, hasHtml, page, opts), opts.maxBlogs)

\* ------------------------------------------------------------------ the network
\* What a server may answer: a.example has a home page and section pages that
\* declare feeds, every other site serves plain pages.  A fetch issued after the deadline of its URL
\* fired, or pending when it fires, rejects with the signal's abort reason.
PagesAt(url) ==
  IF url.origin # OriginA THEN {PagePlain}
  ELSE IF url.path = <<"">> THEN {PagePlain, PageHome, PageDeep, PageEmpty}
  ELSE {PagePlain, PageSection}

\* moved is the path prefix under which the redirects that fetch followed
\* ended: res.url is the requested URL with its path under moved
Response(kind, page, contentType, body) ==
  [kind |-> kind, page |-> page, contentType |-> contentType, body |-> body,
   moved |-> <<>>]

\* a response reached by following a redirect to the same path under /en/
Redirected(resp) == [resp EXCEPT !.moved = <<"en">>]

\* res.url of a response to a request of url
EffectiveUrl(resp, url) == MkUrl(url.origin, resp.moved \o url.path)

Aborted == Response("abort", NULL, "", {})
NetworkError == Response("neterr", NULL, "", {})
NotOk == Response("status", NULL, "", {})

PageResponses(url) ==
  {NetworkError, NotOk} \cup {Response("ok", p.name, "text/html", {}) : p \in PagesAt(url)}

\* the files the sites of the model serve as feeds
FeedFiles == {"rss.xml", "feed.xml"}

CandidateResponses(url) ==
  {NetworkError, NotOk, Response("ok", NULL, "text/html", {"<rss"})}
  \cup IF Last(url.path) \in FeedFiles
         THEN {Response("ok", NULL, "application/atom+xml", {"<?xml", "<feed"})}
       ELSE {}

\* A fixed network: what each URL answers, the same every time it is fetched.
\* home answers the root page of a.example, section every other page of
\* a.example, other the pages of other sites; a candidate validates when its
\* file name is in feeds and is answered by miss otherwise: a network error, a
\* non-success status without or with a feed as body, or an HTML page that
\* mentions <rss.  The other sites may answer every page by a redirect to the
\* same path under /en/.
Misses ==
  {NetworkError, NotOk, Response("ok", NULL, "text/html", {"<rss"}),
   Response("status", NULL, "application/rss+xml", {"<?xml", "<rss"})}

Worlds ==
  [home : PageResponses(MkUrl(OriginA, <<"">>)),
   section : PageResponses(MkUrl(OriginA, <<"blog">>)),
   other : PageResponses(MkUrl(OriginB, <<"">>))
             \cup {Redirected(Response("ok", "plain", "text/html", {}))},
   feeds : SUBSET FeedFiles,
   miss : Misses]

WorldPage(w, url) ==
  IF url.origin # OriginA THEN w.other
  ELSE IF url.path = <<"">> THEN w.home
  ELSE w.section

WorldCandidate(w, url) ==
  IF Last(url.path) \in w.feeds
    THEN Response("ok", NULL, "application/atom+xml", {"<?xml", "<feed"})
  ELSE w.miss

\* fetch rejects
Rejects(resp) == resp.kind \in {"abort", "neterr"}

\* ------------------------------------------------------------------ messages
NoUrl == MkUrl("", <<>>)
Msg(kind, url) == [kind |-> kind, url |-> url]

\* ------------------------------------------------------------------ scans
\* One call of scanURLForFeeds: the page fetch, then one validation fetch per
\* candidate, in order.  failure records what the catch at line 332 caught:
\* "neterr", "status", "abort", or NULL when it caught nothing.
NewScan(url) ==
  [url |-> url, phase |-> "fetching", html |-> NULL, cands |-> <<>>, idx |-> 0,
   feeds |-> <<>>, failure |-> NULL, order |-> 0, resUrl |-> NoUrl]

\* the catch at find-rss-feeds.ts:332
ScanFailed(scan, why) ==
  [scan EXCEPT !.phase = "returned", !.html = NULL, !.feeds = <<>>, !.failure = why]

\* the scan after its page fetch settled with resp
AfterPage(scan, resp) ==
  IF Rejects(resp) \/ resp.kind = "status" THEN ScanFailed(scan, resp.kind)
  ELSE [scan EXCEPT !.phase = "validating", !.html = resp.page,
                    !.resUrl = EffectiveUrl(resp, scan.url),
                    !.cands = candidates(PageOf(resp.page), scan.url), !.idx = 1]

\* AfterCandidate judging the body whatever the status of the response
AfterCandidate_ignoresStatus(scan, resp) ==
  LET accepted == ~Rejects(resp) /\ isValidFeed(resp.contentType, resp.body)
      feeds == IF accepted THEN Append(scan.feeds, scan.cands[scan.idx]) ELSE scan.feeds
  IN [scan EXCEPT !.feeds = feeds, !.idx = @ + 1,
                  !.phase = IF scan.idx + 1 > Len(scan.cands) THEN "returned" ELSE @]

\* AfterCandidate putting an accepted candidate in front of validFeeds
AfterCandidate_prepends(scan, resp) ==
  LET accepted == resp.kind = "ok" /\ isValidFeed(resp.contentType, resp.body)
      feeds == IF accepted THEN <<scan.cands[scan.idx]>> \o scan.feeds ELSE scan.feeds
  IN [scan EXCEPT !.feeds = feeds, !.idx = @ + 1,
                  !.phase = IF scan.idx + 1 > Len(scan.cands) THEN "returned" ELSE @]

\* the scan after the validation fetch of cands[idx] settled with resp
AfterCandidate(scan, resp) ==
  LET accepted == resp.kind = "ok" /\ isValidFeed(resp.contentType, resp.body)
      feeds == IF accepted THEN Append(scan.feeds, scan.cands[scan.idx]) ELSE scan.feeds
  IN [scan EXCEPT !.feeds = feeds, !.idx = @ + 1,
                  !.phase = IF scan.idx + 1 > Len(scan.cands) THEN "returned" ELSE @]

\* ------------------------------------------------------------------ the coordinator
SiteResult(url, feeds, error) == [url |-> url, feeds |-> feeds, error |-> error]

\* AbortSignal.timeout(ms) throws for a delay that is no unsigned 32-bit number
timeoutThrows(ms) == ms.wide

NewPipe(tok) ==
  [url |-> tok, st |-> "root", fired |-> FALSE,
   scans |-> <<NewScan(UrlOfToken(tok))>>, allFeeds |-> <<>>,
   threw |-> NULL, result |-> SiteResult(tok, <<>>, NULL), rank |-> 0]

Exception(isDom, name, message) == [dom |-> isDom, name |-> name, message |-> message]

StackOverflow == Exception(FALSE, "RangeError", "Maximum call stack size exceeded")

\* the error string of the catch at find-rss-feeds.ts:386
errorMessage(e) ==
  IF e.dom /\ e.name = "AbortError" THEN "Timeout" ELSE e.message

\* html is not null
hasHtml_notNull(scan) == scan.html # NULL

\* html is truthy
hasHtml(scan) == scan.html # NULL /\ ~PageOf(scan.html).empty

RECURSIVE sectionScans(_, _)
sectionScans(blogPaths, base) ==
  IF blogPaths = <<>> THEN <<>>
  ELSE IF UrlThrows(blogPaths[1]) THEN sectionScans(Tail(blogPaths), base)
  ELSE <<NewScan(ResolveUrl(blogPaths[1], base))>> \o sectionScans(Tail(blogPaths), base)

\* the merge seeding the map with the sections' feeds, the feeds merged so
\* far coming after them
RECURSIVE mergeScans_sectionsFirst(_, _)
mergeScans_sectionsFirst(into, scans) ==
  IF scans = <<>> THEN into
  ELSE mergeScans_sectionsFirst(MergeFeeds(scans[1].feeds, into), Tail(scans))

\* the feeds the scans of a pipeline returned, root scan first, then the
\* section scans in the order of blogURLs
RECURSIVE Contributions(_)
Contributions(scans) ==
  IF scans = <<>> THEN <<>> ELSE scans[1].feeds \o Contributions(Tail(scans))

\* the merge dropping the feeds of all scans when one of them failed
mergeScans_allOrNothing(into, scans) ==
  IF \E k \in 1..Len(scans) : scans[k].failure # NULL THEN into
  ELSE MergeFeeds(into, Contributions(scans))

\* the merge taking the scans in the order in which they returned
RECURSIVE mergeScans_completionOrder(_, _)
mergeScans_completionOrder(into, scans) ==
  IF scans = <<>> THEN into
  ELSE LET first == CHOOSE k \in 1..Len(scans) :
                      \A j \in 1..Len(scans) : scans[k].order <= scans[j].order
           rest == [j \in 1..(Len(scans) - 1) |-> IF j < first THEN scans[j] ELSE scans[j + 1]]
       IN mergeScans_completionOrder(MergeFeeds(into, scans[first].feeds), rest)

RECURSIVE mergeScans(_, _)
mergeScans(into, scans) ==
  IF scans = <<>> THEN into
  ELSE mergeScans(MergeFeeds(into, scans[1].feeds), Tail(scans))

\* ------------------------------------------------------------------ runs
UrlA == "https://a.example"
UrlB == "https://b.example"

NumTok(k) == CASE k = 1 -> "1" [] k = 2 -> "2" [] k = 3 -> "3" [] OTHER -> "1000"

\* argument lists that end before any scan
ShortRuns ==
  { <<>>, <<"--verbose">>, <<"--help">>, <<"-V">>, <<"--version", "--help", UrlA>>,
    <<"--help", UrlA>>, <<"--timeout">>, <<"--timeout", "abc", UrlA>>,
    <<UrlA, "--max-blogs", "0">>, <<"--blog-paths", " ", UrlA>>,
    <<"--help", "--max-blogs", "-3">>, <<"--timeout", "4294967296", UrlA>> }

\* argument lists of scanning runs: one URL with up to MaxSections sections,
\* two URLs with at most one section each
ScanRuns ==
  { <<"--max-blogs", NumTok(k), UrlA>> : k \in 1..MaxSections }
  \cup { <<"--no-blogs", UrlA>>, <<"-v", "--max-blogs", "1", UrlA>>,
         <<"--timeout", "1000", "--blog-paths", "/blog, /news", "--max-blogs", "1", UrlA>>,
         <<"--no-blogs", UrlA, UrlB>>, <<"--verbose", "--skip-blogs", UrlA, UrlB>>,
         <<UrlA, "--max-blogs", "1", UrlB>>, <<"--blog-paths", ",", UrlA>> }

ArgLists == ShortRuns \cup ScanRuns

\* no exported function is called on its own in a run of the CLI
NoCall == [fn |-> "main"]

NoReport == [success |-> FALSE, hasPartial |-> FALSE, partialResults |-> FALSE,
             results |-> <<>>]

Write(kind, report) == [kind |-> kind, report |-> report]

Init ==
  /\ argv \in ArgLists
  /\ pc = "start"
  /\ cliOptions = defaultOptions
  /\ urls = <<>>
  /\ pipes = <<>>
  /\ stdout = <<>>
  /\ stderr = {}
  /\ exitCode = <<>>
  /\ input = NoCall
  /\ output = NULL

Exit(code) == pc' = "exited" /\ exitCode' = <<code>>

\* ------------------------------------------------------------------ direct calls
\* discoverBlogSubdirectories(baseUrl, html) called as the tests and
\* findRSSFeeds call it, cliOptions set beforehand, followed by the mapping of
\* its result to the section scans (find-rss-feeds.ts:357-366).
CustomLists ==
  { <<>>, <<"/blog">>, <<"/news", "/blog">>, <<"/a", "/a", "/b">>,
    <<"/a", "/b", "/c", "/news">>, <<"https://x.example/blog">> }

BlogHtml == {NULL, "empty", "plain", "home", "links", "dup"}

\* direct calls of extractBlogLinksFromHTML: the pages, seen from the root
\* of the site, from one of its pages and from another site
ExtractCalls ==
  { [fn |-> "extractBlogLinksFromHTML", base |-> b, html |-> h,
     opts |-> defaultOptions] :
      h \in BlogHtml \ {NULL},
      b \in {UrlOfToken(UrlA), MkUrl(OriginA, <<"docs", "index.html">>),
             UrlOfToken(UrlB)} }

BlogCalls ==
  { [fn |-> "discoverBlogSubdirectories", base |-> UrlOfToken(UrlA), html |-> h,
     opts |-> [defaultOptions EXCEPT !.maxBlogs = n, !.hasCustom = c[1],
                                    !.customBlogPaths = c[2]]] :
      h \in BlogHtml, n \in 1..MaxBlogsArg,
      c \in {<<FALSE, <<>> >>} \cup {<<TRUE, l>> : l \in CustomLists} }

InitBlog ==
  /\ argv = <<>>
  /\ pc = "call"
  /\ input \in BlogCalls \cup ExtractCalls
  /\ cliOptions = input.opts
  /\ urls = <<>>
  /\ pipes = <<>>
  /\ stdout = <<>>
  /\ stderr = {}
  /\ exitCode = <<>>
  /\ output = NULL

\* html is truthy
htmlGiven(html) == html # NULL /\ ~PageOf(html).empty

Discover ==
  /\ pc = "call"
  /\ input.fn = "discoverBlogSubdirectories"
  /\ pc' = "discovered"
  /\ output' = [blogPaths |->
                  discoverBlogSubdirectories(input.base, htmlGiven(input.html),
                    IF input.html = NULL THEN PageEmpty ELSE PageOf(input.html),
                    cliOptions),
                scans |-> <<>>]
  /\ UNCHANGED <<input, argv, cliOptions, urls, pipes, stdout, stderr, exitCode>>

\* blogPaths.map(path => new URL(path, baseUrl).href) and the scans started
MapToScans ==
  /\ pc = "discovered"
  /\ pc' = "mapped"
  /\ output' = [output EXCEPT !.scans = sectionScans(output.blogPaths, input.base)]
  /\ UNCHANGED <<input, argv, cliOptions, urls, pipes, stdout, stderr, exitCode>>

\* extractBlogLinksFromHTML(html, baseUrl) called on its own
Extract ==
  /\ pc = "call"
  /\ input.fn = "extractBlogLinksFromHTML"
  /\ pc' = "extracted"
  /\ output' = [roots |-> extractBlogLinksFromHTML(PageOf(input.html), input.base)]
  /\ UNCHANGED <<input, argv, cliOptions, urls, pipes, stdout, stderr, exitCode>>

NextBlog == Discover \/ MapToScans \/ Extract

\* The validation of one candidate (find-rss-feeds.ts:305-329) on its own: a
\* scan whose only candidate is fetched with every status, content-type header
\* ('' when the header is missing) and body.
ContentTypes ==
  {"application/atom+xml", "application/rss+xml", "text/xml", "text/html",
   "application/xhtml+xml; text/html", "text/plain", "application/json", ""}

Markers == {"<?xml", "<rss", "<feed"}

CandidateUnderTest == Feed(MkUrl(OriginA, <<"feed.xml">>), "feed.xml", "rss")

ValidationCalls ==
  { [fn |-> "validate", resp |-> Response(kind, NULL, ct, body)] :
      kind \in {"ok", "status"}, ct \in ContentTypes, body \in SUBSET Markers }

InitValidate ==
  /\ argv = <<>>
  /\ pc = "call"
  /\ input \in ValidationCalls
  /\ cliOptions = defaultOptions
  /\ urls = <<>>
  /\ pipes = <<>>
  /\ stdout = <<>>
  /\ stderr = {}
  /\ exitCode = <<>>
  /\ output = NULL

Validate ==
  /\ pc = "call"
  /\ input.fn = "validate"
  /\ pc' = "validated"
  /\ output' = AfterCandidate(
                  [NewScan(MkUrl(OriginA, <<"">>)) EXCEPT
                     !.phase = "validating", !.html = "plain",
                     !.cands = <<CandidateUnderTest>>, !.idx = 1],
                  input.resp)
  /\ UNCHANGED <<input, argv, cliOptions, urls, pipes, stdout, stderr, exitCode>>

NextValidate == Validate

SpecValidate == InitValidate /\ [][NextValidate]_vars

SpecBlog == InitBlog /\ [][NextBlog]_vars

\* main, find-rss-feeds.ts:404-412
ParseArgs ==
  /\ pc = "start"
  /\ LET r == parseArgs(argv) IN
       /\ cliOptions' = r.opts
       /\ urls' = r.urls
       /\ IF r.err # NULL
            THEN /\ stderr' = stderr \cup {Msg("usage", NoUrl)}
                 /\ Exit(2)
          ELSE /\ pc' = "parsed"
               /\ UNCHANGED <<stderr, exitCode>>
  /\ UNCHANGED <<input, output, argv, pipes, stdout>>

\* main, find-rss-feeds.ts:414-417
ShowVersion ==
  /\ pc = "parsed"
  /\ cliOptions.version
  /\ stdout' = Append(stdout, Write("version", NoReport))
  /\ Exit(0)
  /\ UNCHANGED <<input, output, argv, cliOptions, urls, pipes, stderr>>

\* main, find-rss-feeds.ts:419-422
ShowHelp ==
  /\ pc = "parsed"
  /\ ~cliOptions.version /\ cliOptions.help
  /\ stdout' = Append(stdout, Write("help", NoReport))
  /\ Exit(0)
  /\ UNCHANGED <<input, output, argv, cliOptions, urls, pipes, stderr>>

\* NoUrls printing the help text to stdout on top of the error
NoUrls_showsHelp ==
  /\ pc = "parsed"
  /\ ~cliOptions.version /\ ~cliOptions.help
  /\ urls = <<>>
  /\ stdout' = Append(stdout, Write("help", NoReport))
  /\ stderr' = stderr \cup {Msg("nourl", NoUrl)}
  /\ Exit(2)
  /\ UNCHANGED <<input, output, argv, cliOptions, urls, pipes>>

\* main, find-rss-feeds.ts:424-427
NoUrls ==
  /\ pc = "parsed"
  /\ ~cliOptions.version /\ ~cliOptions.help
  /\ urls = <<>>
  /\ stderr' = stderr \cup {Msg("nourl", NoUrl)}
  /\ Exit(2)
  /\ UNCHANGED <<input, output, argv, cliOptions, urls, pipes, stdout>>

\* StartScans reached without the returns of --version and --help before it
StartScans_ignoresFlags ==
  /\ pc = "parsed"
  /\ urls # <<>>
  /\ IF timeoutThrows(cliOptions.timeout)
       THEN pc' = "rejected" /\ pipes' = pipes
     ELSE /\ pc' = "scanning"
          /\ pipes' = [i \in 1..Len(urls) |-> NewPipe(urls[i])]
  /\ UNCHANGED <<input, output, argv, cliOptions, urls, stdout, stderr, exitCode>>

\* urls.map(url => findRSSFeeds(url)): each call runs to its first await, the
\* root page fetch, or throws at AbortSignal.timeout before its try block.
StartScans ==
  /\ pc = "parsed"
  /\ ~cliOptions.version /\ ~cliOptions.help
  /\ urls # <<>>
  /\ IF timeoutThrows(cliOptions.timeout)
       THEN pc' = "rejected" /\ pipes' = pipes
     ELSE /\ pc' = "scanning"
          /\ pipes' = [i \in 1..Len(urls) |-> NewPipe(urls[i])]
  /\ UNCHANGED <<input, output, argv, cliOptions, urls, stdout, stderr, exitCode>>

\* a fetch of pipeline i is pending
Outstanding(i) ==
  \/ pipes[i].st = "root" /\ pipes[i].scans[1].phase # "returned"
  \/ /\ pipes[i].st = "sections"
     /\ \E k \in 2..Len(pipes[i].scans) : pipes[i].scans[k].phase # "returned"

\* DeadlineFires with one signal shared by the findRSSFeeds calls of a run
DeadlineFires_shared(i) ==
  /\ pc = "scanning"
  /\ Outstanding(i)
  /\ ~pipes[i].fired
  /\ pipes' = [j \in 1..Len(pipes) |-> [pipes[j] EXCEPT !.fired = TRUE]]
  /\ UNCHANGED <<input, output, argv, pc, cliOptions, urls, stdout, stderr, exitCode>>

\* the timer of AbortSignal.timeout(timeoutMs) fires while the pipeline awaits
\* a fetch (between the settling of a fetch and the continuation that awaited
\* it no timer runs)
DeadlineFires(i) ==
  /\ pc = "scanning"
  /\ Outstanding(i)
  /\ ~pipes[i].fired
  /\ pipes' = [pipes EXCEPT ![i].fired = TRUE]
  /\ UNCHANGED <<input, output, argv, pc, cliOptions, urls, stdout, stderr, exitCode>>

\* a scan may take a step: the root scan while the coordinator awaits it, a
\* section scan while the coordinator awaits Promise.allSettled
Running(i, k) ==
  /\ pc = "scanning"
  /\ \/ pipes[i].st = "root" /\ k = 1
     \/ pipes[i].st = "sections" /\ k > 1

\* aborted with the signal handed to the root scan only, the section scans
\* running without one
signalAborted_rootOnly(i, k) == k = 1 /\ pipes[i].fired

\* aborted with the signal handed to the page fetch of a scan only, its
\* validation fetches running without one
signalAborted_pagesOnly(i, k) ==
  pipes[i].fired /\ pipes[i].scans[k].phase = "fetching"

\* signal.aborted of the signal that scan k of pipeline i hands to fetch: the
\* one signal of findRSSFeeds, for the root scan and every section scan
signalAborted(i, k) == pipes[i].fired

\* how the fetch of a page, of a candidate, may settle while the signal is
\* not aborted: any answer of the site, or the answer of the fixed network of
\* the run when it has one
PageAnswers(url) ==
  IF input.fn = "world" THEN {WorldPage(input.world, url)} ELSE PageResponses(url)

CandidateAnswers(url) ==
  IF input.fn = "world" THEN {WorldCandidate(input.world, url)}
  ELSE CandidateResponses(url)

\* the promise of a scanURLForFeeds call settles: order records the
\* how-manieth of the scans of its pipeline it is to return
Stamped(i, scan) ==
  IF scan.phase # "returned" THEN scan
  ELSE [scan EXCEPT !.order =
          1 + Cardinality({k \in 1..Len(pipes[i].scans) :
                             pipes[i].scans[k].phase = "returned"})]

\* scanURLForFeeds, find-rss-feeds.ts:248-302 and 332-335: the page fetch settles
FetchPage(i, k) ==
  /\ Running(i, k)
  /\ pipes[i].scans[k].phase = "fetching"
  /\ \E resp \in IF signalAborted(i, k) THEN {Aborted}
                 ELSE PageAnswers(pipes[i].scans[k].url) :
       LET scan == pipes[i].scans[k]
           failed == Rejects(resp) \/ resp.kind = "status"
           logs == IF failed THEN {Msg("scan", scan.url)}
                   ELSE IF cliOptions.verbose /\ HasInvalidHref(PageOf(resp.page))
                     THEN {Msg("href", scan.url)}
                   ELSE {}
       IN /\ pipes' = [pipes EXCEPT ![i].scans[k] = Stamped(i, AfterPage(scan, resp))]
          /\ stderr' = stderr \cup logs
  /\ UNCHANGED <<input, output, argv, pc, cliOptions, urls, stdout, exitCode>>

\* scanURLForFeeds, find-rss-feeds.ts:304-331: one validation fetch settles
ValidateCandidate(i, k) ==
  /\ Running(i, k)
  /\ pipes[i].scans[k].phase = "validating"
  /\ \E resp \in IF signalAborted(i, k) THEN {Aborted}
                 ELSE CandidateAnswers(pipes[i].scans[k].cands[pipes[i].scans[k].idx].url) :
       LET scan == pipes[i].scans[k]
           logs == IF Rejects(resp) /\ cliOptions.verbose
                     THEN {Msg("validate", scan.cands[scan.idx].url)}
                   ELSE {}
       IN /\ pipes' = [pipes EXCEPT ![i].scans[k] = Stamped(i, AfterCandidate(scan, resp))]
          /\ stderr' = stderr \cup logs
  /\ UNCHANGED <<input, output, argv, pc, cliOptions, urls, stdout, exitCode>>

\* the catch of findRSSFeeds returning the feeds merged before the throw
Caught_keepsFeeds(pipe, e) ==
  [pipe EXCEPT !.st = "done", !.threw = e.message,
               !.result = SiteResult(pipe.url, MergeFeeds(<<>>, pipe.scans[1].feeds),
                                     errorMessage(e))]

\* the catch of findRSSFeeds, find-rss-feeds.ts:386-400
Caught(pipe, e) ==
  [pipe EXCEPT !.st = "done", !.threw = e.message,
               !.result = SiteResult(pipe.url, <<>>, errorMessage(e))]

\* the return of findRSSFeeds reporting a scan that failed as the error
Returned_reportsScanFailure(pipe, feeds) ==
  [pipe EXCEPT !.st = "done", !.allFeeds = feeds,
               !.result = SiteResult(pipe.url, feeds,
                            IF \E k \in 1..Len(pipe.scans) : pipe.scans[k].failure # NULL
                              THEN "fetch failed" ELSE NULL)]

\* the return of findRSSFeeds, find-rss-feeds.ts:381-385
Returned(pipe, feeds) ==
  [pipe EXCEPT !.st = "done", !.allFeeds = feeds,
               !.result = SiteResult(pipe.url, feeds, NULL)]

\* the promise of a findRSSFeeds call settles: rank records the how-manieth of
\* the calls of urls.map(...) it is to settle
Settled(pipe) ==
  [pipe EXCEPT !.rank = 1 + Cardinality({j \in 1..Len(pipes) : pipes[j].st = "done"})]

\* findRSSFeeds, find-rss-feeds.ts:343-367: the root scan returned
RootScanned(i) ==
  /\ pc = "scanning"
  /\ pipes[i].st = "root"
  /\ pipes[i].scans[1].phase = "returned"
  /\ LET pipe == pipes[i]
         root == pipe.scans[1]
         base == UrlOfToken(pipe.url)
         allFeeds == MergeFeeds(<<>>, root.feeds)
         blogPaths == discoverBlogSubdirectories(base, TRUE, PageOf(root.html), cliOptions)
     IN IF ~cliOptions.skipBlogs /\ hasHtml(root)
          THEN IF extractThrows(PageOf(root.html))
                 THEN /\ pipes' = [pipes EXCEPT ![i] = Settled(Caught(pipe, StackOverflow))]
                      /\ stderr' = stderr \cup {Msg("process", base)}
               ELSE IF Len(blogPaths) > 0
                 THEN /\ pipes' = [pipes EXCEPT ![i] =
                            [pipe EXCEPT !.st = "sections", !.allFeeds = allFeeds,
                                         !.scans = @ \o sectionScans(blogPaths, base)]]
                      /\ stderr' = stderr
               ELSE /\ pipes' = [pipes EXCEPT ![i] = Settled(Returned(pipe, allFeeds))]
                    /\ stderr' = stderr
        ELSE /\ pipes' = [pipes EXCEPT ![i] = Settled(Returned(pipe, allFeeds))]
             /\ stderr' = stderr
  /\ UNCHANGED <<input, output, argv, pc, cliOptions, urls, stdout, exitCode>>

\* findRSSFeeds, find-rss-feeds.ts:365-385: Promise.allSettled settled
SectionsSettled(i) ==
  /\ pc = "scanning"
  /\ pipes[i].st = "sections"
  /\ \A k \in 2..Len(pipes[i].scans) : pipes[i].scans[k].phase = "returned"
  /\ LET pipe == pipes[i]
         sections == SubSeq(pipe.scans, 2, Len(pipe.scans))
     IN pipes' = [pipes EXCEPT ![i] =
                     Settled(Returned(pipe, mergeScans(pipe.allFeeds, sections)))]
  /\ UNCHANGED <<input, output, argv, pc, cliOptions, urls, stdout, stderr, exitCode>>

\* result.error is truthy
hasErrorField(r) == r.error # NULL /\ r.error # ""

RECURSIVE countFeeds(_)
countFeeds(results) ==
  IF results = <<>> THEN 0
  ELSE (IF hasErrorField(results[1]) THEN 0 ELSE Len(results[1].feeds))
       + countFeeds(Tail(results))

\* buildReport with success taken from the feed count instead of the errors
buildReport_successByFeeds(results) ==
  LET hasError == \E j \in 1..Len(results) : hasErrorField(results[j])
      totalFeedsFound == countFeeds(results)
  IN [success |-> totalFeedsFound > 0,
      hasPartial |-> hasError /\ totalFeedsFound > 0,
      partialResults |-> hasError /\ totalFeedsFound > 0,
      results |-> results]

\* buildReport with partialResults set on any error, feeds or not
buildReport_partialOnAnyError(results) ==
  LET hasError == \E j \in 1..Len(results) : hasErrorField(results[j])
  IN [success |-> ~hasError, hasPartial |-> hasError, partialResults |-> hasError,
      results |-> results]

\* main, find-rss-feeds.ts:435-458
buildReport(results) ==
  LET hasError == \E j \in 1..Len(results) : hasErrorField(results[j])
      totalFeedsFound == countFeeds(results)
  IN [success |-> ~hasError,
      hasPartial |-> hasError /\ totalFeedsFound > 0,
      partialResults |-> hasError /\ totalFeedsFound > 0,
      results |-> results]

\* exitCodeOf testing the feed count before the errors
exitCodeOf_feedsFirst(results) ==
  IF countFeeds(results) > 0 THEN 0
  ELSE IF \E j \in 1..Len(results) : hasErrorField(results[j]) THEN 2
  ELSE 1

\* exitCodeOf with the codes of "no feed" and "feeds found" exchanged
exitCodeOf_swapped(results) ==
  IF \E j \in 1..Len(results) : hasErrorField(results[j]) THEN 2
  ELSE IF countFeeds(results) = 0 THEN 0
  ELSE 1

\* main, find-rss-feeds.ts:462-468
exitCodeOf(results) ==
  IF \E j \in 1..Len(results) : hasErrorField(results[j]) THEN 2
  ELSE IF countFeeds(results) = 0 THEN 1
  ELSE 0

\* collectResults listing the results in the order the calls settled
collectResults_completionOrder(ps) ==
  [r \in 1..Len(ps) |-> ps[CHOOSE i \in 1..Len(ps) : ps[i].rank = r].result]

\* await Promise.all(urls.map(url => findRSSFeeds(url))), then results.push in
\* the order of that array: the value of the i-th call, however they settled
collectResults(ps) == [i \in 1..Len(ps) |-> ps[i].result]

\* main, find-rss-feeds.ts:431-468: Promise.all resolved
EmitReport ==
  /\ pc = "scanning"
  /\ \A i \in 1..Len(pipes) : pipes[i].st = "done"
  /\ LET results == collectResults(pipes) IN
       /\ stdout' = Append(stdout, Write("report", buildReport(results)))
       /\ Exit(exitCodeOf(results))
  /\ UNCHANGED <<input, output, argv, cliOptions, urls, pipes, stderr>>

\* the catch of main().then(...), find-rss-feeds.ts:481-488
TopLevelCatch ==
  /\ pc = "rejected"
  /\ stderr' = stderr \cup {Msg("fatal", NoUrl)}
  /\ Exit(2)
  /\ UNCHANGED <<input, output, argv, cliOptions, urls, pipes, stdout>>

Next ==
  \/ ParseArgs
  \/ ShowVersion
  \/ ShowHelp
  \/ NoUrls
  \/ StartScans
  \/ \E i \in 1..Len(pipes) : DeadlineFires(i)
  \/ \E i \in 1..Len(pipes) : \E k \in 1..Len(pipes[i].scans) : FetchPage(i, k)
  \/ \E i \in 1..Len(pipes) : \E k \in 1..Len(pipes[i].scans) : ValidateCandidate(i, k)
  \/ \E i \in 1..Len(pipes) : RootScanned(i)
  \/ \E i \in 1..Len(pipes) : SectionsSettled(i)
  \/ EmitReport
  \/ TopLevelCatch

Spec == Init /\ [][Next]_vars

\* ------------------------------------------------------------------ argument lists
\* main up to the start of the scans, over every argument list of at most
\* MaxArgs of these tokens.
ArgTokens ==
  {"--timeout", "--max-blogs", "--blog-paths", "--help", "-V",
   "2", "2x", "0", "-3", "abc", "/blog", "/a,/b|/c", "/blog, /news", ",", " ", UrlA}

RECURSIVE ListsUpTo(_)
ListsUpTo(n) ==
  IF n = 0 THEN {<<>>}
  ELSE ListsUpTo(n - 1)
       \cup {Append(l, t) : l \in {m \in ListsUpTo(n - 1) : Len(m) = n - 1}, t \in ArgTokens}

InitArgs ==
  /\ argv \in ListsUpTo(MaxArgs)
  /\ pc = "start"
  /\ cliOptions = defaultOptions
  /\ urls = <<>>
  /\ pipes = <<>>
  /\ stdout = <<>>
  /\ stderr = {}
  /\ exitCode = <<>>
  /\ input = NoCall
  /\ output = NULL

NextArgs ==
  \/ ParseArgs
  \/ ShowVersion
  \/ ShowHelp
  \/ NoUrls
  \/ StartScans

SpecArgs == InitArgs /\ [][NextArgs]_vars

\* ------------------------------------------------------------------ fixed network
\* Scanning runs against a fixed network whose fetches all settle before any
\* deadline: what is left to vary is the interleaving of the pipelines and of
\* the section scans.
WorldRuns ==
  { <<"--max-blogs", NumTok(k), UrlA>> : k \in 1..MaxSections }
  \cup { <<UrlA, "--max-blogs", "1", UrlB>>, <<"--no-blogs", UrlB, UrlA>>,
         <<"--blog-paths", "/blog, /news", "--max-blogs", "2", UrlA>> }

InitWorld ==
  /\ argv \in WorldRuns
  /\ pc = "start"
  /\ cliOptions = defaultOptions
  /\ urls = <<>>
  /\ pipes = <<>>
  /\ stdout = <<>>
  /\ stderr = {}
  /\ exitCode = <<>>
  /\ input \in [fn : {"world"}, world : Worlds]
  /\ output = NULL

NextWorld ==
  \/ ParseArgs
  \/ StartScans
  \/ \E i \in 1..Len(pipes) : \E k \in 1..Len(pipes[i].scans) : FetchPage(i, k)
  \/ \E i \in 1..Len(pipes) : \E k \in 1..Len(pipes[i].scans) : ValidateCandidate(i, k)
  \/ \E i \in 1..Len(pipes) : RootScanned(i)
  \/ \E i \in 1..Len(pipes) : SectionsSettled(i)
  \/ EmitReport

SpecWorld == InitWorld /\ [][NextWorld]_vars

\* ================================================================== claims
ReportWrites == {k \in 1..Len(stdout) : stdout[k].kind = "report"}

Exited == pc = "exited"

\* the results of the pipelines, in input order
PipeResults == [i \in 1..Len(pipes) |-> pipes[i].result]

\* a SiteResult carries an error
Errored(r) == r.error # NULL

RECURSIVE SumFeeds(_)
SumFeeds(results) ==
  IF results = <<>> THEN 0 ELSE Len(results[1].feeds) + SumFeeds(Tail(results))

\* C1: whenever a RunReport is written, its results are the pipelines' results
\* and success is true exactly when no SiteResult has a non-null error.
C1_SuccessIffNoError ==
  \A k \in ReportWrites :
    LET report == stdout[k].report IN
      /\ report.results = PipeResults
      /\ report.success <=> (\A j \in 1..Len(report.results) : ~Errored(report.results[j]))

\* a report over two results, one with an error and one without
C1_Witness ==
  \E k \in ReportWrites :
    LET report == stdout[k].report IN
      /\ Len(report.results) = 2
      /\ ~report.success
      /\ \E j \in 1..2 : Errored(report.results[j])
      /\ \E j \in 1..2 : ~Errored(report.results[j])

C3_GoodAndBadUrl ==
  \A k \in ReportWrites :
    LET report == stdout[k].report IN
      ( /\ Len(pipes) = 2
        /\ cliOptions.skipBlogs
        /\ pipes[1].scans[1].html = "home"
        /\ pipes[1].scans[1].feeds = declaredFeeds(PageHome.links, UrlOfToken(pipes[1].url), <<>>)
        /\ pipes[2].scans[1].failure = "neterr" )
      => ( /\ ~report.success
           /\ report.hasPartial /\ report.partialResults
           /\ Len(report.results[1].feeds) = 1
           /\ Errored(report.results[2])
           /\ report.results[2].feeds = <<>> )

\* C4: a pipeline whose deadline fired while a fetch was outstanding ends with
\* error "Timeout"; any other exception that escaped ends with its message.
C4_TimeoutNormalized ==
  \A i \in 1..Len(pipes) :
    pipes[i].st = "done" =>
      /\ pipes[i].fired => pipes[i].result.error = "Timeout"
      /\ (~pipes[i].fired /\ pipes[i].threw # NULL) => pipes[i].result.error = pipes[i].threw

\* the writes of the scanning stage
ScanKinds == {"scan", "process", "href", "validate"}

\* C5: without --verbose nothing is written to stderr during scanning.
C5_QuietStderr ==
  (pc \in {"scanning", "exited"} /\ ~cliOptions.verbose)
    => \A m \in stderr : m.kind \notin ScanKinds

\* C6: without --verbose a failed fetch of a finished pipeline shows in its
\* SiteResult (in error: the SiteResult of the code has no diagnostics field).
C6_FailuresInResult ==
  \A i \in 1..Len(pipes) :
    ( /\ ~cliOptions.verbose
      /\ pipes[i].st = "done"
      /\ \E k \in 1..Len(pipes[i].scans) : pipes[i].scans[k].failure # NULL )
    => Errored(pipes[i].result)

StdoutIsJson == Len(stdout) = 1 /\ stdout[1].kind = "report"

\* the run ended in a usage error, without URL, or in the top-level handler
FailedRun == \E m \in stderr : m.kind \in {"usage", "nourl", "fatal"}

\* C8: a run that ended in a failure wrote a JSON document to stdout and
\* exited with code 2.
C8_JsonOnFailure ==
  (Exited /\ FailedRun) => (StdoutIsJson /\ exitCode = <<2>>)

\* C9 as stated: exit code 0 whenever a feed was found, even beside an error.
C9_ExitZeroOnAnyFeed ==
  Exited =>
    /\ FailedRun => exitCode = <<2>>
    /\ \A k \in ReportWrites :
         LET results == stdout[k].report.results
             anyError == \E j \in 1..Len(results) : Errored(results[j])
         IN /\ SumFeeds(results) >= 1 => exitCode = <<0>>
            /\ (SumFeeds(results) = 0 /\ ~anyError) => exitCode = <<1>>
            /\ (SumFeeds(results) = 0 /\ anyError) => exitCode = <<2>>

\* C9 amended: exit code 0 when a feed was found and no SiteResult carries an
\* error, 1 when no feed was found and none carries an error, 2 on a usage
\* error and whenever a SiteResult carries an error, feeds found or not.
C9_ExitCodes ==
  Exited =>
    /\ FailedRun => exitCode = <<2>>
    /\ \A k \in ReportWrites :
         LET results == stdout[k].report.results
             anyError == \E j \in 1..Len(results) : Errored(results[j])
         IN /\ (SumFeeds(results) >= 1 /\ ~anyError) => exitCode = <<0>>
            /\ (SumFeeds(results) = 0 /\ ~anyError) => exitCode = <<1>>
            /\ anyError => exitCode = <<2>>

\* a run that found a feed for one URL, caught an error for the other, and
\* exited with code 2
C9_Witness ==
  /\ Exited
  /\ exitCode = <<2>>
  /\ \E k \in ReportWrites :
       /\ SumFeeds(stdout[k].report.results) >= 1
       /\ \E j \in 1..Len(stdout[k].report.results) : Errored(stdout[k].report.results[j])

\* C10: in a run that wrote its report the exit code is 2 exactly when
\* success is false; with success true it is 0 when a feed is listed and 1
\* when none is, and then partialResults is absent.
C10_ExitAgreesWithReport ==
  \A k \in ReportWrites :
    LET report == stdout[k].report IN
      /\ Exited
      /\ exitCode = <<2>> <=> ~report.success
      /\ (report.success /\ SumFeeds(report.results) >= 1) => exitCode = <<0>>
      /\ (report.success /\ SumFeeds(report.results) = 0)
           => (exitCode = <<1>> /\ ~report.hasPartial)

\* a run that scanned, found no feed and no error, and exited with code 1
C10_Witness ==
  /\ exitCode = <<1>>
  /\ \E k \in ReportWrites :
       /\ stdout[k].report.success
       /\ ~stdout[k].report.hasPartial
       /\ SumFeeds(stdout[k].report.results) = 0

\* C11: a RunReport lists exactly one SiteResult per input URL, the i-th one
\* carrying the i-th input URL, whatever the order in which the pipelines
\* of the URLs finished.
C11_ResultsInInputOrder ==
  \A k \in ReportWrites :
    LET results == stdout[k].report.results IN
      /\ Len(results) = Len(urls)
      /\ \A i \in 1..Len(urls) : results[i].url = urls[i]

\* a report over two URLs whose second pipeline finished before the first
C11_Witness ==
  \E k \in ReportWrites :
    /\ Len(stdout[k].report.results) = 2
    /\ urls[1] # urls[2]
    /\ pipes[2].rank = 1 /\ pipes[1].rank = 2

\* the SiteResult that the scans of a finished pipeline alone determine
OwnResult(pipe) ==
  IF pipe.threw # NULL THEN SiteResult(pipe.url, <<>>, pipe.threw)
  ELSE SiteResult(pipe.url, mergeScans(<<>>, pipe.scans), NULL)

\* C12: the pipelines of the input URLs are isolated.  A step of one pipeline
\* (a fetch settling, its deadline firing, its coordinator moving on) leaves
\* every other pipeline as it was; a fetch of a pipeline is aborted only when
\* the deadline of that pipeline has fired; and the SiteResult of a finished
\* pipeline is the one its own scans determine.
C12_Isolation ==
  [][ Len(pipes') = Len(pipes) =>
        \A i \in 1..Len(pipes) :
          pipes'[i] # pipes[i] =>
            /\ \A j \in 1..Len(pipes) : j # i => pipes'[j] = pipes[j]
            /\ \A k \in 1..Len(pipes'[i].scans) :
                 pipes'[i].scans[k].failure = "abort" => pipes'[i].fired
            /\ pipes'[i].st = "done" => pipes'[i].result = OwnResult(pipes'[i]) ]_vars

\* two pipelines: the deadline of one fired and aborted a fetch of it, the
\* other finished with a feed and without error, its deadline not fired
C12_Witness ==
  /\ Len(pipes) = 2
  /\ \E i, j \in 1..2 :
       /\ i # j
       /\ pipes[i].fired
       /\ \E k \in 1..Len(pipes[i].scans) : pipes[i].scans[k].failure = "abort"
       /\ ~pipes[j].fired
       /\ pipes[j].st = "done"
       /\ pipes[j].result.feeds # <<>> /\ pipes[j].result.error = NULL

\* C13: no two feeds of a SiteResult have the same url; every url the scans
\* contributed is listed once, and the entry listed is the first one
\* contributed with that url, title and kind included.
C13_UniqueFeedUrls ==
  \A i \in 1..Len(pipes) :
    LET feeds == pipes[i].result.feeds
        contrib == Contributions(pipes[i].scans)
    IN /\ \A a, b \in 1..Len(feeds) : a # b => feeds[a].url # feeds[b].url
       /\ (pipes[i].st = "done" /\ pipes[i].threw = NULL) =>
            /\ \A c \in 1..Len(contrib) : HasUrl(feeds, contrib[c].url)
            /\ \A a \in 1..Len(feeds) :
                 \E c \in 1..Len(contrib) :
                   /\ contrib[c] = feeds[a]
                   /\ \A d \in 1..(c - 1) : contrib[d].url # feeds[a].url

\* a finished pipeline whose root scan and section scan contributed the same
\* url under different titles
C13_Witness ==
  \E i \in 1..Len(pipes) :
    /\ pipes[i].st = "done"
    /\ Len(pipes[i].scans) >= 2
    /\ \E a \in 1..Len(pipes[i].scans[1].feeds), b \in 1..Len(pipes[i].scans[2].feeds) :
         /\ pipes[i].scans[1].feeds[a].url = pipes[i].scans[2].feeds[b].url
         /\ pipes[i].scans[1].feeds[a].title # pipes[i].scans[2].feeds[b].title
         /\ HasUrl(pipes[i].result.feeds, pipes[i].scans[1].feeds[a].url)

\* C14: a pipeline has one deadline, created unfired when its processing
\* starts and never reset once fired; from the moment it has fired no fetch
\* of the pipeline completes successfully: a page fetch of the root or of a
\* section rejects with the abort, a candidate validation adds no feed, and a
\* section scan started afterwards starts without a page.
C14_OneDeadline ==
  [][ IF pipes = <<>>
        THEN \A i \in 1..Len(pipes') : ~pipes'[i].fired
      ELSE \A i \in 1..Len(pipes) :
        pipes[i].fired =>
          /\ pipes'[i].fired
          /\ \A k \in 1..Len(pipes'[i].scans) :
               IF k > Len(pipes[i].scans)
                 THEN pipes'[i].scans[k].html = NULL /\ pipes'[i].scans[k].feeds = <<>>
               ELSE IF pipes'[i].scans[k] = pipes[i].scans[k] THEN TRUE
               ELSE IF pipes[i].scans[k].phase = "fetching"
                 THEN pipes'[i].scans[k].failure = "abort"
               ELSE pipes'[i].scans[k].feeds = pipes[i].scans[k].feeds ]_vars

\* a deadline that fired after the root page was fetched and then aborted
\* the page fetch of a section scan
C14_Witness ==
  \E i \in 1..Len(pipes) :
    /\ pipes[i].fired
    /\ pipes[i].scans[1].html # NULL
    /\ \E k \in 2..Len(pipes[i].scans) : pipes[i].scans[k].failure = "abort"

\* the direct call of discoverBlogSubdirectories returned
Discovered == pc \in {"discovered", "mapped"} /\ input.fn = "discoverBlogSubdirectories"

\* what the page's links gave, and the whole list before the slice
FoundIn(call) ==
  IF htmlGiven(call.html) THEN extractBlogLinksFromHTML(PageOf(call.html), call.base)
  ELSE <<>>

IsPrefix(s, t) == Len(s) <= Len(t) /\ s = SubSeq(t, 1, Len(s))

NoDuplicate(s) == \A a, b \in 1..Len(s) : a # b => s[a] # s[b]

Untruncated(call) ==
  blogPathsOf(call.base, htmlGiven(call.html),
              IF call.html = NULL THEN PageEmpty ELSE PageOf(call.html), call.opts)

\* C16: discoverBlogSubdirectories returns at most maxBlogs entries, no entry
\* twice, and they are the first maxBlogs entries of the untruncated ordered
\* list; the coordinator starts at most maxBlogs section scans from them.
C16_AtMostMaxBlogs ==
  Discovered =>
    LET paths == output.blogPaths
        n == input.opts.maxBlogs
    IN /\ Len(paths) <= n
       /\ NoDuplicate(paths)
       /\ IsPrefix(paths, Untruncated(input))
       /\ Len(paths) = Min(n, Len(Untruncated(input)))
       /\ pc = "mapped" => Len(output.scans) <= n

\* a call whose untruncated list was longer than maxBlogs, mapped to exactly
\* maxBlogs section scans
C16_Witness ==
  /\ Discovered /\ pc = "mapped"
  /\ Len(Untruncated(input)) > input.opts.maxBlogs
  /\ input.opts.maxBlogs >= 2
  /\ Len(output.scans) = input.opts.maxBlogs

\* C17: every section URL the coordinator scans has the origin of the input
\* URL, whether its path was derived from the page's links or taken from the
\* override list.
C17_SectionsSameOrigin ==
  (Discovered /\ pc = "mapped") =>
    \A k \in 1..Len(output.scans) : output.scans[k].url.origin = input.base.origin

\* the candidate of the validation call was accepted as a feed
Accepted == output.feeds = <<CandidateUnderTest>>

\* C18: a candidate fetched with a success status is accepted as a feed
\* exactly when its body contains "<rss" or "<feed", and its body contains
\* "<?xml" or its content-type contains "xml", "rss" or "atom", and its
\* content-type does not contain "text/html"; a text/html response is always
\* rejected, an application/atom+xml response with an XML declaration and
\* <feed is always accepted; a response without success status is rejected.
C18_ValidatorRule ==
  (pc = "validated" /\ input.fn = "validate") =>
    LET ct == input.resp.contentType
        body == input.resp.body
        rule == /\ ("<rss" \in body \/ "<feed" \in body)
                /\ \/ "<?xml" \in body
                   \/ \E part \in {"xml", "rss", "atom"} : Includes(ct, part)
                /\ ~Includes(ct, "text/html")
    IN /\ input.resp.kind = "ok" => (Accepted <=> rule)
       /\ input.resp.kind # "ok" => ~Accepted
       /\ ct = "text/html" => ~Accepted
       /\ (input.resp.kind = "ok" /\ ct = "application/atom+xml"
            /\ {"<?xml", "<feed"} \subseteq body) => Accepted
       /\ output.feeds \in {<<>>, <<CandidateUnderTest>>}

\* a text/html response carrying an XML declaration and <rss was rejected
C18_Witness ==
  /\ pc = "validated" /\ input.fn = "validate"
  /\ input.resp.kind = "ok"
  /\ input.resp.contentType = "text/html"
  /\ {"<?xml", "<rss"} \subseteq input.resp.body
  /\ ~Accepted

\* a scan run to its end, alone, against the fixed network w
RECURSIVE RunScan(_, _)
RunScan(scan, w) ==
  IF scan.phase = "returned" THEN scan
  ELSE IF scan.phase = "fetching" THEN RunScan(AfterPage(scan, WorldPage(w, scan.url)), w)
  ELSE RunScan(AfterCandidate(scan, WorldCandidate(w, scan.cands[scan.idx].url)), w)

\* findRSSFeeds run alone, one scan after the other, against w
RunAlone(tok, opts, w) ==
  LET base == UrlOfToken(tok)
      root == RunScan(NewScan(base), w)
      blogPaths == discoverBlogSubdirectories(base, TRUE, PageOf(root.html), opts)
      todo == sectionScans(blogPaths, base)
      sections == [k \in 1..Len(todo) |-> RunScan(todo[k], w)]
  IN IF ~opts.skipBlogs /\ hasHtml(root)
       THEN IF extractThrows(PageOf(root.html))
              THEN SiteResult(tok, <<>>, errorMessage(StackOverflow))
            ELSE SiteResult(tok, mergeScans(MergeFeeds(<<>>, root.feeds), sections), NULL)
     ELSE SiteResult(tok, MergeFeeds(<<>>, root.feeds), NULL)

\* C19: against a fixed network (every URL answering the same each time it is
\* fetched, every fetch settling before the deadline) the RunReport and the
\* exit code of a run are the ones obtained by processing the URLs one after
\* the other, each scan alone: they are functions of the URLs, the
\* configuration and the network, whatever the interleaving of the pipelines
\* and of the section scans.
C19_Deterministic ==
  \A k \in ReportWrites :
    LET alone == [i \in 1..Len(urls) |-> RunAlone(urls[i], cliOptions, input.world)]
    IN /\ stdout[k].report = buildReport(alone)
       /\ exitCode = <<exitCodeOf(alone)>>

\* a report over two URLs, feeds found, the pipeline of the second URL having
\* finished first and the first having scanned a section
C19_Witness ==
  \E k \in ReportWrites :
    /\ input.fn = "world"
    /\ Len(pipes) = 2
    /\ pipes[2].rank = 1
    /\ Len(pipes[1].scans) >= 2
    /\ pipes[1].result.feeds # <<>>
    /\ stdout[k].report.results[1] # stdout[k].report.results[2]

\* a token that is a positive decimal number
IsPositiveNumber(tok) == tok \in {"1", "2", "3", "1000", "4294967296"}

\* an argument list in which --timeout, --max-blogs or --blog-paths stands
\* last, without value, or --timeout / --max-blogs is followed by a value that
\* is no positive number; the value of a well-formed option is skipped
RECURSIVE Malformed(_)
Malformed(args) ==
  IF args = <<>> THEN FALSE
  ELSE IF args[1] \in {"--timeout", "--max-blogs"}
    THEN \/ Len(args) = 1
         \/ ~IsPositiveNumber(args[2])
         \/ Malformed(SubSeq(args, 3, Len(args)))
  ELSE IF args[1] = "--blog-paths"
    THEN Len(args) = 1 \/ Malformed(SubSeq(args, 3, Len(args)))
  ELSE Malformed(Tail(args))

\* neither a URL nor a request for the help text or the version
NoUrlGiven(args) ==
  \A i \in 1..Len(args) :
    ~IsUrlArg(args[i]) /\ args[i] \notin {"--help", "-h", "--version", "-V"}

\* C20: when --timeout, --max-blogs or --blog-paths lacks its value, or the
\* value of --timeout / --max-blogs is not numeric or not positive, parseArgs
\* throws, the run ends with exit code 2 and starts no scan; a run given no
\* URL (and asked neither for help nor version) ends with exit code 2 and
\* starts no scan.
C20_UsageErrors ==
  /\ (Malformed(argv) /\ pc # "start") =>
       /\ pc = "exited" /\ exitCode = <<2>>
       /\ Msg("usage", NoUrl) \in stderr
       /\ pipes = <<>>
  /\ NoUrlGiven(argv) =>
       /\ pipes = <<>>
       /\ Exited => exitCode = <<2>>

\* parseArgs returned without throwing
ParsedOk == pc # "start" /\ Msg("usage", NoUrl) \notin stderr

\* C21: when the arguments parsed without error and --version or --help is
\* among them, no pipeline is ever started, URLs given or not, and the run
\* exits with code 0 having written the version (when --version was given,
\* --help given or not) or else the help text, and no usage error.
C21_VersionHelpFirst ==
  (ParsedOk /\ (cliOptions.version \/ cliOptions.help)) =>
    /\ pipes = <<>>
    /\ pc \in {"parsed", "exited"}
    /\ stderr = {}
    /\ Exited =>
         /\ exitCode = <<0>>
         /\ stdout = <<Write(IF cliOptions.version THEN "version" ELSE "help", NoReport)>>

\* a run given --help, --version and a URL that exited 0 with the version
C21_Witness ==
  /\ Exited /\ exitCode = <<0>>
  /\ cliOptions.version /\ cliOptions.help
  /\ urls # <<>>
  /\ stdout = <<Write("version", NoReport)>>

\* the list a --blog-paths value stands for: its pieces between commas and
\* pipes, trimmed, the empty ones dropped, in order
PathsMeant(value) ==
  CASE value = "/a,/b|/c" -> <<"/a", "/b", "/c">>
    [] value = "/blog, /news" -> <<"/blog", "/news">>
    [] value \in {",", " ", ""} -> <<>>
    [] OTHER -> <<value>>

\* C22: the value of --blog-paths is split on commas and pipes, the pieces
\* trimmed and the empty ones dropped, in order ("/a,/b|/c" gives /a, /b,
\* /c); and an accepted --blog-paths leaves a non-empty override list.
C22_BlogPathsSplit ==
  (ParsedOk /\ cliOptions.hasCustom) =>
    /\ ( /\ argv[1] = "--blog-paths"
         /\ \A i \in 3..Len(argv) : argv[i] # "--blog-paths" )
       => cliOptions.customBlogPaths = PathsMeant(argv[2])
    /\ cliOptions.customBlogPaths # <<>>

\* the page fetch of a scan failed with a network error or a non-2xx status
HttpFailed(scan) == scan.failure \in {"neterr", "status"}

C24_ScanOutcome ==
  \A i \in 1..Len(pipes) : \A k \in 1..Len(pipes[i].scans) :
    LET scan == pipes[i].scans[k]
        page == WorldPage(input.world, scan.url)
        passes(c) == LET resp == WorldCandidate(input.world, c.url)
                     IN resp.kind = "ok" /\ isValidFeed(resp.contentType, resp.body)
    IN /\ (page.kind # "ok" /\ scan.phase # "fetching") =>
            /\ scan.phase = "returned"
            /\ scan.html = NULL /\ scan.feeds = <<>>
            /\ scan.cands = <<>> /\ scan.idx = 0
       /\ (page.kind = "ok" /\ scan.phase = "returned") =>
            /\ scan.html = page.page
            /\ \A c \in 1..Len(scan.cands) :
                 Contains(scan.feeds, scan.cands[c]) <=> passes(scan.cands[c])
            /\ \A f \in 1..Len(scan.feeds) : Contains(scan.cands, scan.feeds[f])

\* a returned scan with one candidate accepted and one answered with a
\* non-success status carrying a feed body, left out
C24_Witness ==
  \E i \in 1..Len(pipes) : \E k \in 1..Len(pipes[i].scans) :
    LET scan == pipes[i].scans[k] IN
      /\ input.fn = "world"
      /\ scan.phase = "returned"
      /\ scan.feeds # <<>>
      /\ \E c \in 1..Len(scan.cands) :
           /\ ~Contains(scan.feeds, scan.cands[c])
           /\ WorldCandidate(input.world, scan.cands[c].url).kind = "status"
           /\ "<rss" \in WorldCandidate(input.world, scan.cands[c].url).body

\* the root scan of a pipeline obtained a page that is not the empty string
RootHtmlObtained(pipe) ==
  pipe.scans[1].html # NULL /\ ~PageOf(pipe.scans[1].html).empty

\* the section list the coordinator computes from the root page
SectionList(pipe) ==
  discoverBlogSubdirectories(UrlOfToken(pipe.url), TRUE, PageOf(pipe.scans[1].html),
                             cliOptions)

C26_RootFeedsFirst ==
  \A i \in 1..Len(pipes) :
    /\ Len(pipes[i].scans) > 1 => pipes[i].scans[1].phase = "returned"
    /\ pipes[i].scans[1].phase # "returned" => pipes[i].st = "root"
    /\ (pipes[i].st = "done" /\ pipes[i].threw = NULL) =>
         IsPrefix(pipes[i].scans[1].feeds, pipes[i].result.feeds)

\* a finished pipeline whose result lists a root feed, then a feed only a
\* section contributed, a section having also contributed the root feed's
\* url under another title
C26_Witness ==
  \E i \in 1..Len(pipes) :
    LET root == pipes[i].scans[1].feeds
        feeds == pipes[i].result.feeds
    IN /\ pipes[i].st = "done"
       /\ root # <<>>
       /\ Len(feeds) > Len(root)
       /\ \E k \in 2..Len(pipes[i].scans) : \E b \in 1..Len(pipes[i].scans[k].feeds) :
            /\ pipes[i].scans[k].feeds[b].url = root[1].url
            /\ pipes[i].scans[k].feeds[b].title # root[1].title

\* the scans of a pipeline in the order in which they returned
RECURSIVE ByCompletion(_)
ByCompletion(scans) ==
  IF scans = <<>> THEN <<>>
  ELSE LET first == CHOOSE k \in 1..Len(scans) :
                      \A j \in 1..Len(scans) : scans[k].order <= scans[j].order
           rest == [j \in 1..(Len(scans) - 1) |-> IF j < first THEN scans[j] ELSE scans[j + 1]]
       IN <<scans[first]>> \o ByCompletion(rest)

\* C27 as stated: the feeds of a SiteResult are the feeds of its scans merged
\* first-seen-wins in the order in which the scans completed.
C27_CompletionOrder ==
  \A i \in 1..Len(pipes) :
    (pipes[i].st = "done" /\ pipes[i].threw = NULL) =>
      pipes[i].result.feeds = MergeFeeds(<<>>, Contributions(ByCompletion(pipes[i].scans)))

\* C27 amended: the feeds of a SiteResult are the feeds of its scans merged
\* first-seen-wins in the order of the section list, the root scan first,
\* whatever the order in which the section scans completed.
C27_ListOrder ==
  \A i \in 1..Len(pipes) :
    (pipes[i].st = "done" /\ pipes[i].threw = NULL) =>
      pipes[i].result.feeds = MergeFeeds(<<>>, Contributions(pipes[i].scans))

\* a finished pipeline whose second section completed before its first, the
\* two contributing different feeds, listed in the order of the section list
C27_Witness ==
  \E i \in 1..Len(pipes) :
    /\ pipes[i].st = "done"
    /\ Len(pipes[i].scans) >= 3
    /\ pipes[i].scans[3].order < pipes[i].scans[2].order
    /\ pipes[i].scans[2].feeds # <<>> /\ pipes[i].scans[3].feeds # <<>>
    /\ pipes[i].scans[2].feeds[1].url # pipes[i].scans[3].feeds[1].url
    /\ pipes[i].scans[1].feeds = <<>>
    /\ pipes[i].result.feeds[1] = pipes[i].scans[2].feeds[1]

\* C28: the feeds of a scan grow only by one candidate appended at the end,
\* and only in a step before and after which the deadline of its pipeline
\* has not fired; once it has fired the feeds of every scan of the pipeline
\* stay as they are and a scan started later has none.
C28_NoFeedAfterDeadline ==
  [][ Len(pipes') = Len(pipes) =>
        \A i \in 1..Len(pipes) : \A k \in 1..Len(pipes'[i].scans) :
          IF k > Len(pipes[i].scans) THEN pipes'[i].scans[k].feeds = <<>>
          ELSE LET old == pipes[i].scans[k].feeds
                   new == pipes'[i].scans[k].feeds
               IN /\ new # old =>
                       /\ ~pipes[i].fired /\ ~pipes'[i].fired
                       /\ Len(new) = Len(old) + 1 /\ IsPrefix(old, new)
                       /\ new[Len(new)] = pipes[i].scans[k].cands[pipes[i].scans[k].idx]
                  /\ pipes[i].fired => new = old ]_vars

\* a scan that validated a candidate, then lost the rest of its candidates
\* to the deadline of its pipeline, while a section scan was aborted
C28_Witness ==
  \E i \in 1..Len(pipes) :
    /\ pipes[i].fired
    /\ \E k \in 1..Len(pipes[i].scans) :
         /\ pipes[i].scans[k].phase = "returned"
         /\ pipes[i].scans[k].feeds # <<>>
         /\ Len(pipes[i].scans[k].feeds) < Len(pipes[i].scans[k].cands)
    /\ \E k \in 1..Len(pipes[i].scans) : pipes[i].scans[k].failure = "abort"

\* C29: the section scans of a pipeline are independent.  A step of one scan
\* leaves the other scans of the pipeline as they were; no scan is aborted
\* unless the deadline of the pipeline fired; a section scan that failed has
\* no feed; and when the pipeline ends after its section scans, every feed
\* of every section scan is listed in the SiteResult (under its url), whose
\* error is absent, whichever other sections failed.
C29_SectionsIndependent ==
  [][ Len(pipes') = Len(pipes) =>
        \A i \in 1..Len(pipes) :
          LET old == pipes[i].scans
              new == pipes'[i].scans
          IN /\ \A k \in 1..Len(old) :
                  new[k] # old[k] => \A j \in 1..Len(old) : j # k => new[j] = old[j]
             /\ \A k \in 2..Len(new) :
                  /\ new[k].failure = "abort" => pipes'[i].fired
                  /\ new[k].failure # NULL => new[k].feeds = <<>>
             /\ (pipes[i].st = "sections" /\ pipes'[i].st = "done") =>
                  /\ pipes'[i].result.error = NULL
                  /\ \A k \in 2..Len(new) : \A f \in 1..Len(new[k].feeds) :
                       HasUrl(pipes'[i].result.feeds, new[k].feeds[f].url) ]_vars

\* a finished pipeline one of whose sections failed on its page fetch while
\* the other contributed the only feed of the result
C29_Witness ==
  \E i \in 1..Len(pipes) :
    /\ pipes[i].st = "done" /\ ~pipes[i].fired
    /\ Len(pipes[i].scans) = 3
    /\ pipes[i].scans[1].feeds = <<>>
    /\ pipes[i].scans[2].failure \in {"neterr", "status"}
    /\ pipes[i].scans[3].feeds # <<>>
    /\ pipes[i].result.feeds = pipes[i].scans[3].feeds
    /\ pipes[i].result.error = NULL

\* C30: a SiteResult that carries an error lists no feed, also when the root
\* scan had validated feeds before the exception escaped.
C30_ErrorMeansNoFeeds ==
  \A i \in 1..Len(pipes) :
    /\ Errored(pipes[i].result) => pipes[i].result.feeds = <<>>
    /\ pipes[i].threw # NULL =>
         (pipes[i].st = "done" /\ Errored(pipes[i].result) /\ pipes[i].result.feeds = <<>>)
    /\ \A k \in ReportWrites : \A j \in 1..Len(stdout[k].report.results) :
         Errored(stdout[k].report.results[j]) => stdout[k].report.results[j].feeds = <<>>

\* a report with a SiteResult carrying an error and no feed, the root scan
\* of its pipeline having validated a feed
C30_Witness ==
  \E k \in ReportWrites : \E j \in 1..Len(stdout[k].report.results) :
    /\ Errored(stdout[k].report.results[j])
    /\ stdout[k].report.results[j].feeds = <<>>
    /\ pipes[j].scans[1].feeds # <<>>

\* C31: a SiteResult that carries an error still lists the feeds that the
\* scans of its pipeline had confirmed when the failure occurred.
C31_PartialKept ==
  \A i \in 1..Len(pipes) :
    (pipes[i].st = "done" /\ Errored(pipes[i].result)) =>
      \A k \in 1..Len(pipes[i].scans) : \A f \in 1..Len(pipes[i].scans[k].feeds) :
        HasUrl(pipes[i].result.feeds, pipes[i].scans[k].feeds[f].url)

\* the link tags of a page that declare a feed with a parsable href
DeclaringLinks(page) ==
  {j \in 1..Len(page.links) : IsFeedLink(page.links[j]) /\ ~UrlThrows(page.links[j].href)}

\* the first link tag of the page declaring u, seen from the scanned url
FirstDeclaring(page, url, u) ==
  LET js == {j \in DeclaringLinks(page) : ResolveUrl(page.links[j].href, url) = u}
  IN page.links[CHOOSE j \in js : \A k \in js : j <= k]

IsDeclared(page, url, u) ==
  \E j \in DeclaringLinks(page) : ResolveUrl(page.links[j].href, url) = u

\* the scans that fetched their page
PageScans ==
  {sc \in UNION {{pipes[i].scans[k] : k \in 1..Len(pipes[i].scans)} : i \in 1..Len(pipes)} :
     sc.html # NULL}

CandidateSetOk(sc) ==
  LET page == PageOf(sc.html)
      c == sc.cands
  IN /\ \A a, b \in 1..Len(c) : a # b => c[a].url # c[b].url
     /\ \A a, b \in 1..Len(c) :
          (a < b /\ IsDeclared(page, sc.url, c[b].url)) => IsDeclared(page, sc.url, c[a].url)
     /\ \A a \in 1..Len(c) :
          IsDeclared(page, sc.url, c[a].url) =>
            LET l == FirstDeclaring(page, sc.url, c[a].url) IN
              /\ c[a].title = (IF l.title = "" THEN "RSS Feed" ELSE l.title)
              /\ c[a].type = (IF Includes(l.type, "atom") THEN "atom" ELSE "rss")
     /\ \A j \in DeclaringLinks(page) : HasUrl(c, ResolveUrl(page.links[j].href, sc.url))
     /\ \A k \in 1..Len(commonPaths) : HasUrl(c, ResolveUrl(Rel(commonPaths[k]), sc.url))

\* C32: the candidate set of a scan holds no two entries with the same
\* resolved URL; the candidates declared by link tags come before those of
\* the conventional paths; a URL declared twice, or declared and also reached
\* by a conventional path, keeps the title and kind of its first declaration.
C32_CandidatesFirstWins == \A sc \in PageScans : CandidateSetOk(sc)

\* a scan of a page that declares one URL twice, which a conventional path
\* reaches too, next to a candidate of a conventional path alone
C32_Witness ==
  \E sc \in PageScans :
    LET page == PageOf(sc.html) IN
      /\ \E j, k \in DeclaringLinks(page) :
            /\ j < k
            /\ ResolveUrl(page.links[j].href, sc.url) = ResolveUrl(page.links[k].href, sc.url)
            /\ page.links[j].title # page.links[k].title
            /\ \E p \in 1..Len(commonPaths) :
                  ResolveUrl(Rel(commonPaths[p]), sc.url) = ResolveUrl(page.links[j].href, sc.url)
      /\ \E a \in 1..Len(sc.cands) : ~IsDeclared(page, sc.url, sc.cands[a].url)

\* the hrefs a scan resolves: those of the declaring link tags of its page
\* and the conventional paths
ScanHrefs(sc) ==
  {PageOf(sc.html).links[j].href : j \in DeclaringLinks(PageOf(sc.html))}
    \cup {Rel(commonPaths[k]) : k \in 1..Len(commonPaths)}

\* C33: the url of every feed of a scan is an href of the scan resolved
\* against the effective URL of the page fetched (res.url, the final URL
\* after redirects).
C33_ResolvedAgainstEffective ==
  \A sc \in PageScans : \A f \in 1..Len(sc.feeds) :
    \E h \in ScanHrefs(sc) : sc.feeds[f].url = ResolveUrl(h, sc.resUrl)

\* the override entries still to append to listed: each once, in the order
\* of the list
RECURSIVE Fresh(_, _)
Fresh(custom, listed) ==
  IF custom = <<>> THEN <<>>
  ELSE IF Contains(listed, custom[1]) THEN Fresh(Tail(custom), listed)
  ELSE <<custom[1]>> \o Fresh(Tail(custom), Append(listed, custom[1]))

\* C34: with an override list set and roots found by the heuristic,
\* discoverBlogSubdirectories returns the heuristic roots first, then the
\* override entries not already present, truncated to maxBlogs; no entry is
\* taken from the canonical list.
C34_HeuristicThenOverride ==
  (Discovered /\ input.opts.hasCustom /\ FoundIn(input) # <<>>) =>
    LET found == FoundIn(input)
        custom == MapHref(input.opts.customBlogPaths)
    IN /\ output.blogPaths = Slice(found \o Fresh(custom, found), input.opts.maxBlogs)
       /\ \A a \in 1..Len(output.blogPaths) :
            Contains(COMMON_BLOG_PATHS, output.blogPaths[a]) =>
              Contains(found, output.blogPaths[a]) \/ Contains(custom, output.blogPaths[a])

\* a call with heuristic roots and an override list of which one entry is
\* among the roots and another is not, the result shorter than maxBlogs
C34_Witness ==
  /\ Discovered /\ input.opts.hasCustom /\ FoundIn(input) # <<>>
  /\ \E c \in 1..Len(input.opts.customBlogPaths) :
        Contains(FoundIn(input), hrefOfString(input.opts.customBlogPaths[c]))
  /\ Len(output.blogPaths) > Len(FoundIn(input))
  /\ Len(output.blogPaths) < input.opts.maxBlogs

\* C35: without an override list, discoverBlogSubdirectories returns the
\* first maxBlogs entries of the canonical list, in its order, when no HTML
\* is given or the heuristic finds no root, and the heuristic roots alone,
\* truncated to maxBlogs, when it finds at least one.
C35_FallbackOnlyWhenEmpty ==
  (Discovered /\ ~input.opts.hasCustom) =>
    IF FoundIn(input) = <<>>
      THEN output.blogPaths = SubSeq(COMMON_BLOG_PATHS, 1, input.opts.maxBlogs)
    ELSE /\ output.blogPaths = Slice(FoundIn(input), input.opts.maxBlogs)
         /\ \A a \in 1..Len(output.blogPaths) : Contains(FoundIn(input), output.blogPaths[a])

\* a call without override list on a page with fewer roots than maxBlogs:
\* the result is these roots and nothing else
C35_Witness ==
  /\ Discovered /\ ~input.opts.hasCustom
  /\ FoundIn(input) # <<>>
  /\ Len(FoundIn(input)) < input.opts.maxBlogs
  /\ output.blogPaths = FoundIn(input)

Extracted == pc = "extracted" /\ input.fn = "extractBlogLinksFromHTML"

\* the anchors of the page of a call that link into the site of its base
SiteAnchors(call) ==
  {j \in 1..Len(PageOf(call.html).anchors) :
     LET a == PageOf(call.html).anchors[j] IN
       /\ a.href.kind # "none" /\ ~UrlThrows(a.href)
       /\ ResolveUrl(a.href, call.base).origin = call.base.origin}

AnchorPath(call, j) == ResolveUrl(PageOf(call.html).anchors[j].href, call.base).path

\* anchor j matches a keyword by its text or its path
AnchorMatches(call, j) ==
  MatchesKeyword([text |-> PageOf(call.html).anchors[j].text, path |-> AnchorPath(call, j)])

\* anchor j is the first of the page with its path
FirstWithPath(call, j) ==
  \A k \in SiteAnchors(call) : AnchorPath(call, k) = AnchorPath(call, j) => j <= k

\* the root anchor j stands for: "/" and the first segment of its path
RootOf(call, j) == Abs(<<NonEmpty(AnchorPath(call, j))[1]>>)

\* C36: links are deduplicated by path and the first occurrence wins: every
\* root returned comes from a link that is the first of the page with its
\* path; a later link with the same path is ignored, even when its anchor
\* text matches a keyword that the first one did not.
C36_FirstPathWins ==
  Extracted =>
    \A r \in 1..Len(output.roots) :
      \E j \in SiteAnchors(input) :
        /\ FirstWithPath(input, j)
        /\ AnchorMatches(input, j)
        /\ NonEmpty(AnchorPath(input, j)) # <<>>
        /\ RootOf(input, j) = output.roots[r]

\* C37: every root returned by extractBlogLinksFromHTML is "/" followed by
\* the first path segment of a same-origin link that matches a keyword and
\* whose path has one to three segments; no root is returned twice.
C37_RootsFromShallowLinks ==
  Extracted =>
    /\ NoDuplicate(output.roots)
    /\ \A r \in 1..Len(output.roots) :
         \E j \in SiteAnchors(input) :
           /\ AnchorMatches(input, j)
           /\ Len(NonEmpty(AnchorPath(input, j))) \in 1..3
           /\ RootOf(input, j) = output.roots[r]

\* a call that returned roots for a page on which a same-origin link matching
\* a keyword has the path "/" or more than three segments, and a link of the
\* latter kind has a first segment that is no root
C37_Witness ==
  /\ Extracted
  /\ output.roots # <<>>
  /\ \E j \in SiteAnchors(input) :
        /\ AnchorMatches(input, j)
        /\ \/ AnchorPath(input, j) = <<"">>
           \/ /\ Len(NonEmpty(AnchorPath(input, j))) > 3
              /\ ~Contains(output.roots, RootOf(input, j))

\* C38: the feeds a scan validated before the deadline of its pipeline fired
\* are kept: the SiteResult of a pipeline whose deadline fired lists every
\* feed that its scans validated.
C38_KeptAcrossDeadline ==
  \A i \in 1..Len(pipes) :
    (pipes[i].st = "done" /\ pipes[i].fired) =>
      \A k \in 1..Len(pipes[i].scans) : \A f \in 1..Len(pipes[i].scans[k].feeds) :
        HasUrl(pipes[i].result.feeds, pipes[i].scans[k].feeds[f].url)

\* the run was given URLs to scan: its arguments parsed without error, with
\* at least one URL and neither --help nor --version
ScanningRun == ParsedOk /\ ~cliOptions.version /\ ~cliOptions.help /\ urls # <<>>

\* C39: every pipeline of a run returns exactly one SiteResult and never
\* rejects, and the RunReport is written exactly once, after all pipelines
\* returned: a run given URLs to scan never has more than one report, never
\* has a report while a pipeline is running, and when it has ended every URL
\* has its pipeline, every pipeline has returned and the report is written.
C39_AllReturnOneReport ==
  ScanningRun =>
    /\ Cardinality(ReportWrites) <= 1
    /\ ReportWrites # {} => \A i \in 1..Len(pipes) : pipes[i].st = "done"
    /\ Exited =>
         /\ Len(pipes) = Len(urls)
         /\ \A i \in 1..Len(pipes) : pipes[i].st = "done"
         /\ Cardinality(ReportWrites) = 1

\* the place of the candidate with url u among the candidates c, 0 for none
PlaceOf(c, u) ==
  IF HasUrl(c, u) THEN CHOOSE a \in 1..Len(c) : c[a].url = u ELSE 0

\* the first conventional path that resolves to u from url, 0 for none
PathPlace(url, u) ==
  LET ks == {k \in 1..Len(commonPaths) : ResolveUrl(Rel(commonPaths[k]), url) = u}
  IN IF ks = {} THEN 0 ELSE CHOOSE k \in ks : \A m \in ks : k <= m

\* the first declaring link tag of page that resolves to u from url
LinkPlace(page, url, u) ==
  LET js == {j \in DeclaringLinks(page) : ResolveUrl(page.links[j].href, url) = u}
  IN CHOOSE j \in js : \A m \in js : j <= m

\* the candidates of sc stand in the order of the claim: the declared ones in
\* document order, then those of the conventional paths in the order of the
\* list; its feeds are candidates already fetched, in candidate order
InCandidateOrder(sc) ==
  LET page == PageOf(sc.html)
      c == sc.cands
  IN /\ \A a, b \in 1..Len(c) : a < b =>
          IF IsDeclared(page, sc.url, c[b].url)
            THEN /\ IsDeclared(page, sc.url, c[a].url)
                 /\ LinkPlace(page, sc.url, c[a].url) < LinkPlace(page, sc.url, c[b].url)
          ELSE \/ IsDeclared(page, sc.url, c[a].url)
               \/ PathPlace(sc.url, c[a].url) < PathPlace(sc.url, c[b].url)
     /\ \A f \in 1..Len(sc.feeds) :
          /\ PlaceOf(c, sc.feeds[f].url) \in 1..(sc.idx - 1)
          /\ c[PlaceOf(c, sc.feeds[f].url)] = sc.feeds[f]
     /\ \A f, g \in 1..Len(sc.feeds) :
          f < g => PlaceOf(c, sc.feeds[f].url) < PlaceOf(c, sc.feeds[g].url)

\* C40: within one scan the validation fetches are issued one at a time in
\* candidate order and every candidate is fetched at most once: a step of a
\* scan that validates settles the fetch of the one candidate cands[idx] and
\* moves idx to the next, never back, the candidates staying as they are, and
\* the scan returns when the last one settled; the feeds of the scan are in
\* candidate order: declared links in document order, then the conventional
\* paths in the order of the list.
C40_SequentialValidation ==
  [][ Len(pipes') = Len(pipes) =>
        \A i \in 1..Len(pipes) : \A k \in 1..Len(pipes[i].scans) :
          LET old == pipes[i].scans[k]
              new == pipes'[i].scans[k]
          IN /\ new.html # NULL => InCandidateOrder(new)
             /\ old.phase = "validating" =>
                  /\ new.cands = old.cands
                  /\ old.idx \in 1..Len(old.cands)
                  /\ new.idx \in {old.idx, old.idx + 1}
                  /\ new.phase = (IF new.idx > Len(old.cands) THEN "returned"
                                  ELSE "validating")
                  /\ new.idx = old.idx => new = old
             /\ old.phase = "returned" => new = old ]_vars

\* a scan that fetched each of its candidates and returned two feeds, the
\* first declared by a link tag, the second of a conventional path that
\* stands before the declared one in the list of conventional paths
C40_Witness ==
  \E sc \in PageScans :
    /\ sc.phase = "returned"
    /\ sc.idx = Len(sc.cands) + 1
    /\ Len(sc.feeds) = 2
    /\ IsDeclared(PageOf(sc.html), sc.url, sc.feeds[1].url)
    /\ ~IsDeclared(PageOf(sc.html), sc.url, sc.feeds[2].url)
    /\ PathPlace(sc.url, sc.feeds[2].url) < PathPlace(sc.url, sc.feeds[1].url)

====
